---- MODULE Spec2Model ----
(***************************************************************************)
(* A model of the keyspace-enumeration engine of noita-eye-messages: the   *)
(* ARX reference cipher (src/src/ciphers/arx.rs), the worker partitioning  *)
(* (src/src/utils/threading.rs) and the search run of                      *)
(* src/src/bin/search.rs: the coordinator, its worker threads, the channel *)
(* between them and the key dump file.                                     *)
(*                                                                         *)
(* The unit type of the program is u8.  The arithmetic of the slices, of   *)
(* the key totals, of the codec and of the key encoding is modelled at the *)
(* real width (bits = 8).  The enumeration itself visits 524288^N keys, so *)
(* it is explored at reduced unit widths (add and xor range over           *)
(* 0 .. 2^bits - 1, rot over 0 .. bits - 1), which keeps the loop          *)
(* structure, and at the real width for one round and 256 workers.         *)
(***************************************************************************)
EXTENDS Integers, Sequences, FiniteSets, TLC

VARIABLES
    bits,           \* width of a unit in bits (8: the program's u8)
    round_count,    \* ARXCipher.round_count
    worker_total,   \* main: worker_total
    cli_args,       \* main: args.sequential, args.max_parallelism (0: None)
    parallelism,    \* what get_parallelism() returns
    worker_ctxs,    \* main: worker_ctxs, the contexts created so far
    keys_total,     \* main: keys_total (rug::Integer)
    main_pc,        \* main: "init" | "contexts" | "panic"
    \* one worker's permute_keys_interruptible
    worker_id,      \* the worker whose context is enumerated
    ctx,            \* its ARXWorkerContext
    pc,             \* "idle" | "entry" | "body" | "chunk" | "returned" | "overflow" | "done"
    r,              \* the round whose loops are running (0: permute_keys_interruptible)
    key,            \* key.rounds, the key buffer filled in place
    ret,            \* the value the last permute_additional_round returned
    \* what the callbacks have observed
    keys_visited,   \* number of key_callback invocations
    seen,           \* the keys key_callback was invoked with
    last_key,       \* the key of the latest key_callback invocation
    since_chunk,    \* key_callback invocations since the latest chunk_callback
    chunk_calls,    \* number of chunk_callback invocations
    chunk_sum,      \* sum of the counts passed to chunk_callback
    last_chunk,     \* the count of the latest chunk_callback invocation
    last_since,     \* since_chunk when the latest chunk_callback was invoked
    stopped,        \* a chunk_callback has returned false
    \* a codec context applied to the messages
    codec_key,      \* ARXCodecContext.key
    input_messages, \* the messages given to the first codec context
    decrypt_first,  \* DECRYPT of the first codec context
    codec_stage,    \* number of codec contexts applied (0..2)
    mid_messages,   \* get_output_messages() of the first codec context
    final_messages, \* get_output_messages() of the second, on mid_messages
    \* search_task of one worker: the predicate compiled and called on keys
    languages,      \* languages: the registered UnitFrequency values
    in_freq_dist_errors,    \* search_task: in_freq_dist_errors
    cond_src,       \* the condition, parsed
    compiled,       \* what compile_str gave: the choice of fn_spec at every call
    out_freq_dist,  \* the OnceCell out_freq_dist
    task_pc,        \* "idle" | "compile" | "key" | "call" | "done" | "failed" | "panicked"
    task_keys,      \* the keys the enumeration still has to give
    evaluation,     \* what the latest jit_fn.call() did
    matches,        \* the keys sent as Match so far
    \* the interleaved message data and a checked access to it
    message_data,   \* AcceleratedMessageList::from_messages(..).data
    access,         \* a checked read: its place, and what index and get_output gave
    \* an alphabet being filled
    alphabet,       \* Alphabet: units (code to unit) and grapheme_map (grapheme to code)
    alphabet_result,    \* what the last add_unit or add_anonymous_unit returned
    \* a key sent from a worker to the coordinator
    wire_key,       \* the ARXKey of the worker
    net_key,        \* TaskPacket::Match.net_key
    key_stage,      \* "idle" | "key" | "encoded" | "decoded"
    decoded,        \* ARXKey::from_buffer(net_key)
    rendered,       \* Cipher::net_key_to_boxed_str(net_key)
    \* a search run: the coordinator (main) and its scoped worker threads
    capacity,       \* bound of the sync_channel (64 in the program)
    key_dump,       \* args.key_dump_path is Some
    build_hash,     \* env!("GIT_HASH"), as bytes
    predicate,      \* what jit_fn.call() answers: "all" | "none" | "some"
    workers,        \* the worker threads: position, key buffer, counters, its tx
    chan,           \* the packets sent and not yet received, oldest first
    workers_waiting,                \* main: workers_waiting
    keys_checked,                   \* main: keys_checked (rug::Integer)
    keys_checked_since_last_print,  \* main: keys_checked_since_last_print
    received,       \* the packets the coordinator has received, in order
    dump_file,      \* the bytes of the key dump file
    faults,         \* how many times a write fell short or failed, or a worker panicked
    stdout,         \* the lines printed, but for the periodic progress lines
    exit_code       \* the exit code of the process, -1 while it runs

sliceVars == <<worker_ctxs, keys_total, main_pc>>
argVars == <<cli_args, parallelism>>
cfgVars == <<bits, round_count, worker_total, argVars>>
permVars == <<worker_id, ctx, pc, r, key, ret>>
obsVars == <<keys_visited, seen, last_key, since_chunk, chunk_calls, chunk_sum,
             last_chunk, last_since, stopped>>
taskVars == <<languages, in_freq_dist_errors, cond_src, compiled, out_freq_dist,
              task_pc, task_keys, evaluation, matches>>
codecVars == <<codec_key, input_messages, decrypt_first, codec_stage, mid_messages,
               final_messages, taskVars>>
keyVars == <<wire_key, net_key, key_stage, decoded, rendered>>
dataVars == <<message_data, access, alphabet, alphabet_result>>
searchCfgVars == <<capacity, key_dump, build_hash, predicate>>
searchVars == <<capacity, key_dump, build_hash, predicate, workers, chan, workers_waiting,
                keys_checked, keys_checked_since_last_print, received, dump_file,
                faults, stdout, exit_code>>
vars == <<bits, round_count, worker_total, cli_args, parallelism, worker_ctxs, keys_total, main_pc,
          worker_id, ctx, pc, r, key, ret,
          keys_visited, seen, last_key, since_chunk, chunk_calls, chunk_sum,
          last_chunk, last_since, stopped,
          codec_key, input_messages, decrypt_first, codec_stage, mid_messages,
          final_messages,
          languages, in_freq_dist_errors, cond_src, compiled, out_freq_dist,
          task_pc, task_keys, evaluation, matches,
          wire_key, net_key, key_stage, decoded, rendered,
          message_data, access, alphabet, alphabet_result,
          capacity, key_dump, build_hash, predicate, workers, chan, workers_waiting,
          keys_checked, keys_checked_since_last_print, received, dump_file,
          faults, stdout, exit_code>>

(***************************************************************************)
(* Program constants.                                                      *)
(***************************************************************************)
U8_BITS == 8
KEYS_PER_ROUND == 524288
MAX_ROUNDS == 8
ARX_MAX_PARALLELISM == 256
KEYS_PER_ADD == 2048
U8_MAX == 255
ROT_MAX == 7

RECURSIVE Pow2(_)
Pow2(n) == IF n = 0 THEN 1 ELSE 2 * Pow2(n - 1)

\* The largest value of a unit of width b (u8::MAX for b = 8), the largest
\* rotation the enumeration tries (7 for u8) and the literals of arx.rs that
\* are products of these ranges.
UnitMax(b) == IF b = U8_BITS THEN U8_MAX ELSE Pow2(b) - 1
RotMax(b) == IF b = U8_BITS THEN ROT_MAX ELSE b - 1
KeysPerAdd(b) == IF b = U8_BITS THEN KEYS_PER_ADD ELSE (UnitMax(b) + 1) * (RotMax(b) + 1)
KeysPerRound(b) ==
    IF b = U8_BITS THEN KEYS_PER_ROUND
    ELSE (UnitMax(b) + 1) * (UnitMax(b) + 1) * (RotMax(b) + 1)
get_max_parallelism(b) == IF b = U8_BITS THEN ARX_MAX_PARALLELISM ELSE UnitMax(b) + 1

(***************************************************************************)
(* rug::Integer: an arbitrary-precision natural number, kept as its digits *)
(* in base BigBase, least significant first, without leading zeros         *)
(* (zero is the empty sequence).                                           *)
(***************************************************************************)
BigBase == 1000

RECURSIVE BigFromInt(_)
BigFromInt(n) == IF n = 0 THEN <<>> ELSE <<n % BigBase>> \o BigFromInt(n \div BigBase)

RECURSIVE BigAddC(_, _, _)
BigAddC(a, b, carry) ==
    IF a = <<>> /\ b = <<>> THEN BigFromInt(carry)
    ELSE LET da == IF a = <<>> THEN 0 ELSE Head(a)
             db == IF b = <<>> THEN 0 ELSE Head(b)
             s == da + db + carry
         IN  <<s % BigBase>> \o BigAddC(IF a = <<>> THEN <<>> ELSE Tail(a),
                                        IF b = <<>> THEN <<>> ELSE Tail(b),
                                        s \div BigBase)
BigAdd(a, b) == BigAddC(a, b, 0)

\* a * k for a machine integer 0 <= k <= 2^20 (the u64 factor of get_total_keys)
RECURSIVE BigMulC(_, _, _)
BigMulC(a, k, carry) ==
    IF a = <<>> THEN BigFromInt(carry)
    ELSE LET p == Head(a) * k + carry
         IN  <<p % BigBase>> \o BigMulC(Tail(a), k, p \div BigBase)
BigMulInt(a, k) == BigMulC(a, k, 0)

RECURSIVE BigPow(_, _)
BigPow(k, e) == IF e = 0 THEN <<1>> ELSE BigMulInt(BigPow(k, e - 1), k)

\* KEYS_PER_ROUND^e for the exponents a key total needs at the real width
RoundPowers == [e \in 0..(MAX_ROUNDS - 1) |-> BigPow(KEYS_PER_ROUND, e)]
KeysPerRoundPow(b, e) == IF b = U8_BITS THEN RoundPowers[e] ELSE BigPow(KeysPerRound(b), e)

(***************************************************************************)
(* Worker partitioning.                                                    *)
(***************************************************************************)
\* T::try_from(x): the value, when it fits in a unit of width b
TryFromOk(x, b) == 0 <= x /\ x <= UnitMax(b)

\* get_worklet_slice::<T>(max_value, worklet_id, worklet_total).  The usize
\* subtraction max - 1 overflows for max = 0 (a panic in a debug build, a
\* wrapped value that try_from refuses otherwise) and unwrap() panics when
\* try_from fails.
SliceMin(max_value, worklet_id, worklet_total) ==
    (worklet_id * (max_value + 1)) \div worklet_total
SliceMaxMutant(max_value, worklet_id, worklet_total) ==
    ((worklet_id + 1) * max_value) \div worklet_total
SliceMax(max_value, worklet_id, worklet_total) ==
    ((worklet_id + 1) * (max_value + 1)) \div worklet_total
get_worklet_slice(b, max_value, worklet_id, worklet_total) ==
    LET min == SliceMin(max_value, worklet_id, worklet_total)
        max == SliceMax(max_value, worklet_id, worklet_total)
    IN  IF TryFromOk(min, b) /\ TryFromOk(max - 1, b)
        THEN [panic |-> FALSE, min |-> min, max |-> max - 1]
        ELSE [panic |-> TRUE, min |-> 0, max |-> 0]

\* ARXCipher::create_worker_context_parallel
create_worker_context_parallel(b, rc, wid, total) ==
    LET s == get_worklet_slice(b, UnitMax(b), wid, total)
    IN  [panic |-> s.panic, round_count |-> rc, a_min |-> s.min, a_max |-> s.max]

\* ARXWorkerContext::get_total_keys; a_max - a_min is a u8 subtraction
SpanMutant(c, b) == (c.a_max - c.a_min) % (UnitMax(b) + 1)
Span(c, b) == ((c.a_max - c.a_min) % (UnitMax(b) + 1)) + 1
get_total_keys(c, b) ==
    IF c.round_count = 0 THEN <<>>
    ELSE BigMulInt(KeysPerRoundPow(b, c.round_count - 1), Span(c, b) * KeysPerAdd(b))

(***************************************************************************)
(* main (search.rs 412-419): the contexts of all workers and keys_total.   *)
(***************************************************************************)
\* keys_total += worker_ctx.get_total_keys(), over the contexts lo..hi
RECURSIVE SumTotals(_, _, _, _)
SumTotals(ctxs, lo, hi, b) ==
    IF lo > hi THEN <<>>
    ELSE IF lo = hi THEN get_total_keys(ctxs[lo], b)
    ELSE LET mid == (lo + hi) \div 2
         IN  BigAdd(SumTotals(ctxs, lo, mid, b), SumTotals(ctxs, mid + 1, hi, b))

CreateWorkerContexts ==
    /\ main_pc = "init"
    /\ LET ctxs == [i \in 1..worker_total |->
                        create_worker_context_parallel(bits, round_count, i - 1, worker_total)]
       IN  IF \E i \in 1..worker_total : ctxs[i].panic
           THEN /\ main_pc' = "panic"
                /\ UNCHANGED <<worker_ctxs, keys_total>>
           ELSE /\ main_pc' = "contexts"
                /\ worker_ctxs' = ctxs
                /\ keys_total' = SumTotals(ctxs, 1, worker_total, bits)
    /\ UNCHANGED <<searchVars, codecVars, keyVars, dataVars, cfgVars, permVars, obsVars>>

\* worker_total is given, not derived from the arguments
\* the bytes of a string of ASCII digits and letters
AsciiDigit(d) == 48 + d
CipherNameArx == <<97, 114, 120>>
RECURSIVE DecimalBytes(_)
DecimalBytes(n) ==
    IF n < 10 THEN <<AsciiDigit(n)>>
    ELSE DecimalBytes(n \div 10) \o <<AsciiDigit(n % 10)>>

\* Option<Box<str>>: a string is the sequence of its bytes
NoString == [some |-> FALSE, value |-> <<>>]
SomeString(bytes) == [some |-> TRUE, value |-> bytes]

\* the arguments of a run whose cipher is built: "arx", its config the
\* round count in decimal; no --sequential, no --max-parallelism
ArgsIdle ==
    /\ cli_args = [sequential |-> FALSE, max_parallelism |-> 0,
                   cipher |-> CipherNameArx, config |-> SomeString(DecimalBytes(round_count))]
    /\ parallelism = 0

\* no worker is enumerating
PermuteIdle ==
    /\ worker_id = 0
    /\ ctx = [panic |-> FALSE, round_count |-> 0, a_min |-> 0, a_max |-> 0]
    /\ pc = "idle"
    /\ r = 0
    /\ key = <<>>
    /\ ret = TRUE
    /\ keys_visited = 0
    /\ seen = {}
    /\ last_key = <<>>
    /\ since_chunk = 0
    /\ chunk_calls = 0
    /\ chunk_sum = 0
    /\ last_chunk = 0
    /\ last_since = 0
    /\ stopped = FALSE

\* no search_task is compiling or calling a predicate
TaskIdle ==
    /\ languages = <<>>
    /\ in_freq_dist_errors = <<>>
    /\ cond_src = <<>>
    /\ compiled = <<>>
    /\ out_freq_dist = <<>>
    /\ task_pc = "idle"
    /\ task_keys = <<>>
    /\ evaluation = <<>>
    /\ matches = <<>>

\* no codec context is in use
CodecIdle ==
    /\ TaskIdle
    /\ codec_key = <<>>
    /\ input_messages = <<>>
    /\ decrypt_first = TRUE
    /\ codec_stage = 0
    /\ mid_messages = <<>>
    /\ final_messages = <<>>

\* no key is on its way
\* Alphabet::new: no unit
Alphabet_new == [units |-> <<>>, grapheme_map |-> <<>>]
AlphabetIdle ==
    /\ alphabet = Alphabet_new
    /\ alphabet_result = "none"

\* no message data built, nothing read
NoRead == [panic |-> FALSE, value |-> 0]
DataIdle ==
    /\ message_data = [message_count |-> 0, inner |-> <<>>, unit_counts |-> <<>>]
    /\ access = [stage |-> "idle", m |-> 0, u |-> 0, read |-> NoRead, out |-> NoRead]
    /\ AlphabetIdle

KeyIdle ==
    /\ wire_key = <<>>
    /\ net_key = <<>>
    /\ key_stage = "idle"
    /\ decoded = [ok |-> FALSE, key |-> <<>>]
    /\ rendered = [ok |-> FALSE, str |-> <<>>]

\* the CHANNEL bound of main: sync_channel::<TaskPacket>(64)
CHANNEL_CAPACITY == 64

\* no search is running
SearchIdle ==
    /\ capacity = CHANNEL_CAPACITY
    /\ key_dump = FALSE
    /\ build_hash = <<>>
    /\ predicate = "none"
    /\ workers = <<>>
    /\ chan = <<>>
    /\ workers_waiting = 0
    /\ keys_checked = <<>>
    /\ keys_checked_since_last_print = <<>>
    /\ received = <<>>
    /\ dump_file = <<>>
    /\ faults = 0
    /\ stdout = <<>>
    /\ exit_code = -1

InitSlice ==
    /\ DataIdle
    /\ SearchIdle
    /\ bits = U8_BITS
    /\ round_count \in 1..MAX_ROUNDS
    /\ worker_total \in 1..get_max_parallelism(bits)
    /\ worker_ctxs = <<>>
    /\ keys_total = <<>>
    /\ main_pc = "init"
    /\ PermuteIdle
    /\ CodecIdle
    /\ KeyIdle
    /\ ArgsIdle

NextSlice == CreateWorkerContexts

SpecSlice == InitSlice /\ [][NextSlice]_vars

(***************************************************************************)
(* The enumeration: permute_round!, permute_additional_round and           *)
(* permute_keys_interruptible of arx.rs.                                   *)
(***************************************************************************)
\* bounds of the reduced-width enumeration
MaxBits == 2
MaxPermuteRounds == 4
MaxKeys == 1024

\* ARXRound::default()
DefaultRound == [add |-> 0, rot |-> 0, xor |-> 0]

\* permute_round!: the first assignment of the three nested loops
RoundFirst(add_min) == [add |-> add_min, rot |-> 0, xor |-> 0]

\* permute_round!: whether the loops run their body again after this one
\* (rot is the innermost loop, then xor, then add up to add_max)
LoopHasNext(round, add_max, b) ==
    ~(round.rot = RotMax(b) /\ round.xor = UnitMax(b) /\ round.add = add_max)

\* permute_round!: the assignment of the loop variables for the next body
LoopNextXorFastest(round, b) ==
    IF round.xor < UnitMax(b) THEN [round EXCEPT !.xor = round.xor + 1]
    ELSE IF round.rot < RotMax(b) THEN [round EXCEPT !.rot = round.rot + 1, !.xor = 0]
    ELSE [add |-> round.add + 1, rot |-> 0, xor |-> 0]
LoopNextSkipsLastXor(round, b) ==
    IF round.rot < RotMax(b) THEN [round EXCEPT !.rot = round.rot + 1]
    ELSE IF round.xor < UnitMax(b) - 1 THEN [round EXCEPT !.xor = round.xor + 1, !.rot = 0]
    ELSE [add |-> round.add + 1, rot |-> 0, xor |-> 0]
LoopNext(round, b) ==
    IF round.rot < RotMax(b) THEN [round EXCEPT !.rot = round.rot + 1]
    ELSE IF round.xor < UnitMax(b) THEN [round EXCEPT !.xor = round.xor + 1, !.rot = 0]
    ELSE [add |-> round.add + 1, rot |-> 0, xor |-> 0]

\* the add range of the loops of round rr: [a_min, a_max] in
\* permute_keys_interruptible, the two-argument permute_round! elsewhere
AddMinOf(c, rr) == IF rr = 0 THEN c.a_min ELSE 0
AddMaxOf(c, rr, b) == IF rr = 0 THEN c.a_max ELSE UnitMax(b)

\* the count permute_keys_interruptible passes to chunk_callback when
\* round_count == 1: (a_max as u32 - a_min as u32 + 1) * 256 * 8
FinalChunkNoPlusOne(c, b) == (c.a_max - c.a_min) * KeysPerAdd(b)
FinalChunk(c, b) == (c.a_max - c.a_min + 1) * KeysPerAdd(b)

\* the count permute_additional_round passes to chunk_callback
RoundChunkTwice(b) == 2 * KeysPerRound(b)
RoundChunk(b) == KeysPerRound(b)

\* `if !permute_additional_round(..) { return false }` and, at the top,
\* `if !permute_additional_round(..) { return }`
UnwindsNever(returned) == FALSE
Unwinds(returned) == ~returned

r_max == ctx.round_count - 1

\* permute_keys_interruptible up to the first loop body
PermuteBegin ==
    /\ pc = "entry"
    /\ IF ctx.round_count = 0
       THEN /\ pc' = "done"
            /\ UNCHANGED <<r, key>>
       ELSE LET fresh == [i \in 1..ctx.round_count |-> DefaultRound]
            IN  IF ctx.a_min <= ctx.a_max
                THEN /\ key' = [fresh EXCEPT ![1] = RoundFirst(ctx.a_min)]
                     /\ r' = 0
                     /\ pc' = "body"
                ELSE \* the loop over an empty add range runs no body
                     /\ key' = fresh
                     /\ r' = 0
                     /\ pc' = IF ctx.round_count = 1 THEN "overflow" ELSE "done"
    /\ UNCHANGED <<searchVars, codecVars, keyVars, dataVars, cfgVars, sliceVars, worker_id, ctx, ret, obsVars>>

\* the loop body of the last round (or of the only round): key_callback(key),
\* then the loops advance or end
KeyCallback ==
    /\ pc = "body"
    /\ r = r_max
    /\ keys_visited' = keys_visited + 1
    /\ seen' = seen \cup {key}
    /\ last_key' = key
    /\ since_chunk' = since_chunk + 1
    /\ IF LoopHasNext(key[r + 1], AddMaxOf(ctx, r, bits), bits)
       THEN /\ key' = [key EXCEPT ![r + 1] = LoopNext(key[r + 1], bits)]
            /\ pc' = "body"
       ELSE /\ pc' = "chunk"
            /\ key' = key
    /\ UNCHANGED <<searchVars, codecVars, keyVars, dataVars, cfgVars, sliceVars, worker_id, ctx, r, ret,
                   chunk_calls, chunk_sum, last_chunk, last_since, stopped>>

\* the loop body of a round before the last: the call of
\* permute_additional_round(r + 1, ..), whose loops start
Recurse ==
    /\ pc = "body"
    /\ r < r_max
    /\ r' = r + 1
    /\ key' = [key EXCEPT ![r + 2] = RoundFirst(0)]
    /\ pc' = "body"
    /\ UNCHANGED <<searchVars, codecVars, keyVars, dataVars, cfgVars, sliceVars, worker_id, ctx, ret, obsVars>>

\* after the loops of the last round: chunk_callback(count).  With one round
\* permute_keys_interruptible ends whatever the callback returns; otherwise
\* permute_additional_round returns the callback's value to its caller.
ChunkCallback ==
    /\ pc = "chunk"
    /\ \E continue \in BOOLEAN :
          LET count == IF ctx.round_count = 1 THEN FinalChunk(ctx, bits) ELSE RoundChunk(bits)
          IN  /\ chunk_calls' = chunk_calls + 1
              /\ chunk_sum' = chunk_sum + count
              /\ last_chunk' = count
              /\ last_since' = since_chunk
              /\ since_chunk' = 0
              /\ stopped' = (stopped \/ ~continue)
              /\ IF ctx.round_count = 1
                 THEN /\ pc' = "done"
                      /\ UNCHANGED <<r, ret>>
                 ELSE /\ ret' = continue
                      /\ r' = r - 1
                      /\ pc' = "returned"
    /\ UNCHANGED <<searchVars, codecVars, keyVars, dataVars, cfgVars, sliceVars, worker_id, ctx, key, keys_visited, seen, last_key>>

\* back in round r after permute_additional_round(r + 1, ..) returned
Returned ==
    /\ pc = "returned"
    /\ IF Unwinds(ret)
       THEN \* return (r = 0) or return false
            /\ IF r = 0
               THEN pc' = "done" /\ UNCHANGED <<r, ret>>
               ELSE pc' = "returned" /\ r' = r - 1 /\ ret' = FALSE
            /\ key' = key
       ELSE IF LoopHasNext(key[r + 1], AddMaxOf(ctx, r, bits), bits)
       THEN /\ key' = [key EXCEPT ![r + 1] = LoopNext(key[r + 1], bits)]
            /\ pc' = "body"
            /\ UNCHANGED <<r, ret>>
       ELSE \* the loops of round r are over: the end (r = 0) or return true
            /\ IF r = 0
               THEN pc' = "done" /\ UNCHANGED <<r, ret>>
               ELSE pc' = "returned" /\ r' = r - 1 /\ ret' = TRUE
            /\ key' = key
    /\ UNCHANGED <<searchVars, codecVars, keyVars, dataVars, cfgVars, sliceVars, worker_id, ctx, obsVars>>

RECURSIVE IntPow(_, _)
IntPow(k, e) == IF e = 0 THEN 1 ELSE k * IntPow(k, e - 1)

\* k^e, or some number above cap when k^e is above cap
RECURSIVE CappedPow(_, _, _)
CappedPow(k, e, cap) ==
    IF e = 0 THEN 1
    ELSE LET p == CappedPow(k, e - 1, cap) IN IF p > cap THEN p ELSE k * p

\* the runs explored: every reduced width and round count whose keyspace
\* has at most MaxKeys keys, with every worker_total up to the cipher's
\* maximum and every worker; and, at the real width, one round with 256
\* workers (first and last worker)
PermuteRuns ==
    {<<b, n, w, i>> \in (1..MaxBits) \X (1..MaxPermuteRounds) \X (1..Pow2(MaxBits)) \X (0..(Pow2(MaxBits) - 1)) :
        /\ w <= get_max_parallelism(b)
        /\ i < w
        /\ CappedPow(KeysPerRound(b), n, MaxKeys) <= MaxKeys}
    \cup {<<U8_BITS, 1, ARX_MAX_PARALLELISM, i>> : i \in {0, ARX_MAX_PARALLELISM - 1}}

InitPermute ==
    /\ DataIdle
    /\ SearchIdle
    /\ \E run \in PermuteRuns :
          /\ bits = run[1]
          /\ round_count = run[2]
          /\ worker_total = run[3]
          /\ worker_id = run[4]
    /\ ctx = create_worker_context_parallel(bits, round_count, worker_id, worker_total)
    /\ worker_ctxs = <<>>
    /\ keys_total = <<>>
    /\ main_pc = "contexts"
    /\ pc = "entry"
    /\ r = 0
    /\ key = <<>>
    /\ ret = TRUE
    /\ keys_visited = 0
    /\ seen = {}
    /\ last_key = <<>>
    /\ since_chunk = 0
    /\ chunk_calls = 0
    /\ chunk_sum = 0
    /\ last_chunk = 0
    /\ last_since = 0
    /\ stopped = FALSE
    /\ CodecIdle
    /\ KeyIdle
    /\ ArgsIdle

NextPermute ==
    \/ PermuteBegin
    \/ KeyCallback
    \/ Recurse
    \/ ChunkCallback
    \/ Returned

SpecPermute == InitPermute /\ [][NextPermute]_vars

(***************************************************************************)
(* The codec: ARXCodecContext::get_output_unchecked and the output         *)
(* messages of CipherCodecContext, on 8-bit units.                         *)
(***************************************************************************)
\* bound of the codec keys explored
MaxCodecRounds == 2

Byte == 0..U8_MAX

\* u8 ^ u8, bit by bit
RECURSIVE BitXor(_, _, _)
BitXor(a, b, n) ==
    IF n = 0 THEN 0
    ELSE ((a + b) % 2) + 2 * BitXor(a \div 2, b \div 2, n - 1)
XorTable == [a \in Byte |-> [b \in Byte |-> BitXor(a, b, U8_BITS)]]
xor_u8(a, b) == XorTable[a][b]

\* u8::wrapping_add, u8::wrapping_sub
wrapping_add(a, b) == (a + b) % (U8_MAX + 1)
wrapping_sub(a, b) == (a - b + (U8_MAX + 1)) % (U8_MAX + 1)

\* u8::rotate_right(n), u8::rotate_left(n): the shift is n mod 8
rotate_right_shifts(x, n) == x \div Pow2(n % U8_BITS)
rotate_right(x, n) ==
    LET sh == n % U8_BITS
    IN  (x \div Pow2(sh)) + ((x % Pow2(sh)) * Pow2(U8_BITS - sh))
rotate_left(x, n) ==
    LET sh == n % U8_BITS
    IN  ((x * Pow2(sh)) % (U8_MAX + 1)) + (x \div Pow2(U8_BITS - sh))

\* the closure of the decrypt branch: one round on one byte
DecryptRoundRotatesLeft(round, byte) ==
    xor_u8(rotate_left(wrapping_add(byte, round.add), round.rot), round.xor)
DecryptRound(round, byte) ==
    xor_u8(rotate_right(wrapping_add(byte, round.add), round.rot), round.xor)

\* the closure of the encrypt branch: one round on one byte
EncryptRoundSubFirst(round, byte) ==
    rotate_left(xor_u8(wrapping_sub(byte, round.add), round.xor), round.rot)
EncryptRound(round, byte) ==
    wrapping_sub(rotate_left(xor_u8(byte, round.xor), round.rot), round.add)

\* StackVec::for_each and StackVec::for_each_rev: the indices of the n
\* elements in the order the closure is called on them
for_each(n) == [i \in 1..n |-> i]
for_each_rev(n) == [i \in 1..n |-> n + 1 - i]

RECURSIVE ApplyRounds(_, _, _, _, _)
ApplyRounds(rounds, order, i, byte, decrypt) ==
    IF i > Len(order) THEN byte
    ELSE ApplyRounds(rounds, order, i + 1,
                     IF decrypt THEN DecryptRound(rounds[order[i]], byte)
                     ELSE EncryptRound(rounds[order[i]], byte),
                     decrypt)

\* the longest of the messages
RECURSIVE LenMax(_, _)
LenMax(message_list, i) ==
    IF i > Len(message_list) THEN 0
    ELSE LET rest == LenMax(message_list, i + 1)
         IN  IF Len(message_list[i]) > rest THEN Len(message_list[i]) ELSE rest

\* AcceleratedMessageList::from_messages: unit u of message m is stored at
\* u * message_count + m (both from 0), shorter messages padded with 0
from_messages_message_major(message_list) ==
    LET count == Len(message_list)
        len_max == LenMax(message_list, 1)
    IN  [message_count |-> count,
         inner |-> [idx \in 1..(len_max * count) |->
                      LET m == (idx - 1) \div len_max
                          u == (idx - 1) % len_max
                      IN  IF u < Len(message_list[m + 1]) THEN message_list[m + 1][u + 1] ELSE 0],
         unit_counts |-> [m \in 1..count |-> Len(message_list[m])]]
from_messages(message_list) ==
    LET count == Len(message_list)
    IN  [message_count |-> count,
         inner |-> [idx \in 1..(LenMax(message_list, 1) * count) |->
                      LET m == (idx - 1) % count
                          u == (idx - 1) \div count
                      IN  IF u < Len(message_list[m + 1]) THEN message_list[m + 1][u + 1] ELSE 0],
         unit_counts |-> [m \in 1..count |-> Len(message_list[m])]]

\* InterleavedMessageData::get_unchecked for indices (from 0) in bounds
get_unchecked(data, message_index, unit_index) ==
    data.inner[(unit_index * data.message_count) + message_index + 1]

\* InterleavedMessageData::get_unit_count
get_unit_count(data, message_index) == data.unit_counts[message_index + 1]

\* ARXCodecContext::<DECRYPT>::get_output_unchecked
get_output_unchecked(decrypt, k, data, message_index, unit_index) ==
    LET byte == get_unchecked(data, message_index, unit_index)
    IN  IF decrypt
        THEN ApplyRounds(k, for_each(Len(k)), 1, byte, TRUE)
        ELSE ApplyRounds(k, for_each_rev(Len(k)), 1, byte, FALSE)

\* CipherCodecContext::get_output_message and get_output_messages
get_output_message(decrypt, k, data, message_index) ==
    [i \in 1..get_unit_count(data, message_index) |->
        get_output_unchecked(decrypt, k, data, message_index, i - 1)]
get_output_messages(decrypt, k, data) ==
    [m \in 1..data.message_count |-> get_output_message(decrypt, k, data, m - 1)]

\* the first codec context, on the interleaved input messages
CodecFirst ==
    /\ codec_stage = 0
    /\ mid_messages' = get_output_messages(decrypt_first, codec_key, from_messages(input_messages))
    /\ codec_stage' = 1
    /\ UNCHANGED <<codec_key, input_messages, decrypt_first, final_messages, taskVars>>
    /\ UNCHANGED <<searchVars, keyVars, dataVars, cfgVars, sliceVars, permVars, obsVars>>

\* a codec context of the other direction, with the same key, on the
\* interleaved output of the first
CodecSecond ==
    /\ codec_stage = 1
    /\ final_messages' = get_output_messages(~decrypt_first, codec_key, from_messages(mid_messages))
    /\ codec_stage' = 2
    /\ UNCHANGED <<codec_key, input_messages, decrypt_first, mid_messages, taskVars>>
    /\ UNCHANGED <<searchVars, keyVars, dataVars, cfgVars, sliceVars, permVars, obsVars>>

\* the keys explored: every single round over wide samples of add and xor
\* and every rot; the keys of up to MaxCodecRounds rounds over narrow
\* samples; and keys of MAX_ROUNDS rounds
WideRounds ==
    {[add |-> a, rot |-> t, xor |-> x] :
        a \in {0, 1, 3, 127, 128, 255}, t \in 0..ROT_MAX, x \in {0, 5, 128, 255}}
NarrowRounds ==
    {[add |-> a, rot |-> t, xor |-> x] : a \in {0, 3}, t \in {0, 1}, x \in {0, 5}}
LongKeys ==
    {[i \in 1..MAX_ROUNDS |-> [add |-> (37 * i) % 256, rot |-> i - 1, xor |-> (91 * i) % 256]],
     [i \in 1..MAX_ROUNDS |-> [add |-> 255, rot |-> 7, xor |-> 255]]}
CodecKeys ==
    {<<round>> : round \in WideRounds}
    \cup UNION {[1..n -> NarrowRounds] : n \in 2..MaxCodecRounds}
    \cup LongKeys

\* the messages explored: one holding every byte, "Hello", and an empty one
AllBytes == [u \in 1..(U8_MAX + 1) |-> u - 1]
Hello == <<72, 101, 108, 108, 111>>

InitCodec ==
    /\ DataIdle
    /\ SearchIdle
    /\ bits = U8_BITS
    /\ codec_key \in CodecKeys
    /\ round_count = Len(codec_key)
    /\ worker_total = 1
    /\ worker_ctxs = <<>>
    /\ keys_total = <<>>
    /\ main_pc = "contexts"
    /\ PermuteIdle
    /\ input_messages = <<AllBytes, Hello, <<>> >>
    /\ TaskIdle
    /\ decrypt_first \in BOOLEAN
    /\ codec_stage = 0
    /\ mid_messages = <<>>
    /\ final_messages = <<>>
    /\ KeyIdle
    /\ ArgsIdle

NextCodec ==
    \/ CodecFirst
    \/ CodecSecond

SpecCodec == InitCodec /\ [][NextCodec]_vars

(***************************************************************************)
(* Keys on the wire: ARXKey::encode_to_buffer in the worker, and           *)
(* ARXKey::from_buffer and ARXKey::to_string behind                        *)
(* Cipher::net_key_to_boxed_str in the coordinator.  EncodedARXKey and     *)
(* EncodedARXRound are prost messages: a buffer is a sequence of bytes in  *)
(* the protobuf wire format.                                               *)
(***************************************************************************)
\* bound of the wire keys explored
MaxKeyRounds == 3

\* protobuf wire types
WIRE_VARINT == 0
WIRE_LENGTH_DELIMITED == 2
\* the longest varint the model decodes, in bytes
MaxVarintBytes == 4

\* prost::encoding::encode_varint: 7 bits a byte, least significant first,
\* the top bit set on every byte but the last
RECURSIVE encode_varint(_)
encode_varint(n) ==
    IF n < 128 THEN <<n>>
    ELSE <<(n % 128) + 128>> \o encode_varint(n \div 128)

\* prost::encoding::encode_key
encode_key(tag, wire_type) == encode_varint((tag * 8) + wire_type)

\* prost::encoding::uint32::encode behind the proto3 default check: a field
\* holding 0 is not written
encode_uint32_field(tag, value) ==
    IF value = 0 THEN <<>>
    ELSE encode_key(tag, WIRE_VARINT) \o encode_varint(value)

\* EncodedARXRound::encode_raw: the fields in tag order
EncodedARXRound_encode_raw(enc_round) ==
    encode_uint32_field(1, enc_round.add)
        \o encode_uint32_field(2, enc_round.rot)
        \o encode_uint32_field(3, enc_round.xor)

\* prost::encoding::message::encode: key, length, body, also when the body
\* is empty
encode_message_field_skips_empty(tag, body) ==
    IF body = <<>> THEN <<>>
    ELSE encode_key(tag, WIRE_LENGTH_DELIMITED) \o encode_varint(Len(body)) \o body
encode_message_field(tag, body) ==
    encode_key(tag, WIRE_LENGTH_DELIMITED) \o encode_varint(Len(body)) \o body

\* EncodedARXKey::encode_to_vec: the repeated field, round by round
RECURSIVE EncodedARXKey_encode_to_vec(_, _)
EncodedARXKey_encode_to_vec(enc_rounds, i) ==
    IF i > Len(enc_rounds) THEN <<>>
    ELSE encode_message_field(1, EncodedARXRound_encode_raw(enc_rounds[i]))
            \o EncodedARXKey_encode_to_vec(enc_rounds, i + 1)

\* ARXKey::encode_to_buffer: every round widened to u32 fields, then encoded
encode_to_buffer(k) ==
    EncodedARXKey_encode_to_vec(
        [i \in 1..Len(k) |-> [rot |-> k[i].rot, add |-> k[i].add, xor |-> k[i].xor]], 1)

DecodeError == [ok |-> FALSE, value |-> 0, next |-> 0]

\* prost::encoding::decode_varint on buf[pos..end]: the value and the
\* position after it, or an error when the bytes run out
RECURSIVE decode_varint_from(_, _, _, _, _, _)
decode_varint_from(buf, pos, end, count, weight, acc) ==
    IF pos > end \/ count = MaxVarintBytes THEN DecodeError
    ELSE IF buf[pos] < 128
         THEN [ok |-> TRUE, value |-> acc + (buf[pos] * weight), next |-> pos + 1]
         ELSE decode_varint_from(buf, pos + 1, end, count + 1, weight * 128,
                                 acc + ((buf[pos] - 128) * weight))
decode_varint(buf, pos, end) == decode_varint_from(buf, pos, end, 0, 1, 0)

\* prost::encoding::skip_field for the varint, 64-bit, length-delimited and
\* 32-bit wire types: the position after the field
skip_field(wire_type, buf, pos, end) ==
    IF wire_type = WIRE_VARINT
    THEN decode_varint(buf, pos, end)
    ELSE IF wire_type = 1
    THEN IF pos + 8 > end + 1 THEN DecodeError ELSE [ok |-> TRUE, value |-> 0, next |-> pos + 8]
    ELSE IF wire_type = WIRE_LENGTH_DELIMITED
    THEN LET len == decode_varint(buf, pos, end)
         IN  IF ~len.ok \/ len.next + len.value > end + 1 THEN DecodeError
             ELSE [ok |-> TRUE, value |-> 0, next |-> len.next + len.value]
    ELSE IF wire_type = 5
    THEN IF pos + 4 > end + 1 THEN DecodeError ELSE [ok |-> TRUE, value |-> 0, next |-> pos + 4]
    ELSE DecodeError

\* EncodedARXRound::merge over buf[pos..end]: fields 1, 2, 3 are varints,
\* every other field is skipped, a field left out keeps its default
RECURSIVE EncodedARXRound_merge(_, _, _, _)
EncodedARXRound_merge(buf, pos, end, enc_round) ==
    IF pos > end THEN [ok |-> TRUE, round |-> enc_round]
    ELSE LET k == decode_varint(buf, pos, end)
             tag == k.value \div 8
             wire_type == k.value % 8
             bad == [ok |-> FALSE, round |-> enc_round]
         IN  IF ~k.ok \/ tag = 0 \/ wire_type > 5 THEN bad
             ELSE IF tag \in {1, 2, 3}
             THEN LET v == decode_varint(buf, k.next, end)
                  IN  IF wire_type # WIRE_VARINT \/ ~v.ok THEN bad
                      ELSE EncodedARXRound_merge(buf, v.next, end,
                              IF tag = 1 THEN [enc_round EXCEPT !.add = v.value]
                              ELSE IF tag = 2 THEN [enc_round EXCEPT !.rot = v.value]
                              ELSE [enc_round EXCEPT !.xor = v.value])
             ELSE LET sk == skip_field(wire_type, buf, k.next, end)
                  IN  IF ~sk.ok THEN bad
                      ELSE EncodedARXRound_merge(buf, sk.next, end, enc_round)

\* EncodedARXKey::decode: field 1 is a length-delimited EncodedARXRound,
\* merged into a default round and pushed; every other field is skipped
RECURSIVE EncodedARXKey_decode(_, _, _)
EncodedARXKey_decode(buf, pos, enc_rounds) ==
    IF pos > Len(buf) THEN [ok |-> TRUE, rounds |-> enc_rounds]
    ELSE LET k == decode_varint(buf, pos, Len(buf))
             tag == k.value \div 8
             wire_type == k.value % 8
             bad == [ok |-> FALSE, rounds |-> <<>>]
         IN  IF ~k.ok \/ tag = 0 \/ wire_type > 5 THEN bad
             ELSE IF tag = 1
             THEN LET len == decode_varint(buf, k.next, Len(buf))
                      body == EncodedARXRound_merge(buf, len.next, len.next + len.value - 1,
                                                    [add |-> 0, rot |-> 0, xor |-> 0])
                  IN  IF wire_type # WIRE_LENGTH_DELIMITED \/ ~len.ok THEN bad
                      ELSE IF len.next + len.value > Len(buf) + 1 THEN bad
                      ELSE IF ~body.ok THEN bad
                      ELSE EncodedARXKey_decode(buf, len.next + len.value,
                                                Append(enc_rounds, body.round))
             ELSE LET sk == skip_field(wire_type, buf, k.next, Len(buf))
                  IN  IF ~sk.ok THEN bad
                      ELSE EncodedARXKey_decode(buf, sk.next, enc_rounds)

\* u8::try_from(u32)
TryIntoU8Ok(value) == value <= U8_MAX

\* ARXKey::from_buffer
from_buffer(buffer) ==
    LET enc_key == EncodedARXKey_decode(buffer, 1, <<>>)
    IN  IF ~enc_key.ok THEN [ok |-> FALSE, key |-> <<>>]
        ELSE IF Len(enc_key.rounds) > MAX_ROUNDS THEN [ok |-> FALSE, key |-> <<>>]
        ELSE IF \E i \in 1..Len(enc_key.rounds) :
                    \/ ~TryIntoU8Ok(enc_key.rounds[i].rot)
                    \/ ~TryIntoU8Ok(enc_key.rounds[i].add)
                    \/ ~TryIntoU8Ok(enc_key.rounds[i].xor)
        THEN [ok |-> FALSE, key |-> <<>>]
        ELSE [ok |-> TRUE,
              key |-> [i \in 1..Len(enc_key.rounds) |->
                          [add |-> enc_key.rounds[i].add,
                           rot |-> enc_key.rounds[i].rot,
                           xor |-> enc_key.rounds[i].xor]]]

\* a String is the sequence of its characters
Digits == <<"0", "1", "2", "3", "4", "5", "6", "7", "8", "9">>
\* format!("{}", n) of an unsigned integer
RECURSIVE Decimal(_)
Decimal(n) ==
    IF n < 10 THEN <<Digits[n + 1]>>
    ELSE Decimal(n \div 10) \o <<Digits[(n % 10) + 1]>>

\* the parts to_string pushes for the rounds from i on
RECURSIVE KeyParts(_, _)
KeyParts(k, i) ==
    IF i > Len(k) THEN <<>>
    ELSE (IF k[i].add # 0 THEN << <<"a">> \o Decimal(k[i].add) >> ELSE <<>>)
            \o (IF k[i].rot # 0 THEN << <<"r">> \o Decimal(k[i].rot) >> ELSE <<>>)
            \o (IF k[i].xor # 0 THEN << <<"x">> \o Decimal(k[i].xor) >> ELSE <<>>)
            \o KeyParts(k, i + 1)

\* parts.join("->")
RECURSIVE Join(_, _)
Join(parts, i) ==
    IF i > Len(parts) THEN <<>>
    ELSE IF i = Len(parts) THEN parts[i]
    ELSE parts[i] \o <<"-", ">">> \o Join(parts, i + 1)

\* ARXKey::to_string
to_string(k) ==
    LET parts == KeyParts(k, 1)
    IN  IF Len(parts) = 0
        THEN <<"[", "n", "o", "-", "o", "p", " ", "k", "e", "y", "]">>
        ELSE <<"[">> \o Join(parts, 1) \o <<"]">>

\* Cipher::net_key_to_boxed_str
net_key_to_boxed_str(buffer) ==
    LET k == from_buffer(buffer)
    IN  IF k.ok THEN [ok |-> TRUE, str |-> to_string(k.key)]
        ELSE [ok |-> FALSE, str |-> <<>>]

\* the worker's match callback: TaskPacket::Match { net_key: key.encode_to_buffer() }
SendMatch ==
    /\ key_stage = "key"
    /\ net_key' = encode_to_buffer(wire_key)
    /\ key_stage' = "sent"
    /\ UNCHANGED <<wire_key, decoded, rendered>>
    /\ UNCHANGED <<searchVars, codecVars, cfgVars, sliceVars, permVars, obsVars, dataVars>>

\* the coordinator on TaskPacket::Match: the key is decoded and rendered
ReceiveMatch ==
    /\ key_stage = "sent"
    /\ decoded' = from_buffer(net_key)
    /\ rendered' = net_key_to_boxed_str(net_key)
    /\ key_stage' = "decoded"
    /\ UNCHANGED <<wire_key, net_key>>
    /\ UNCHANGED <<searchVars, codecVars, cfgVars, sliceVars, permVars, obsVars, dataVars>>

\* the keys explored: every add and rot with a sample of xor in one round;
\* keys of up to MaxKeyRounds rounds over the ends of the ranges; keys of
\* MAX_ROUNDS rounds, one of them all zero
WireRounds ==
    {[add |-> a, rot |-> t, xor |-> x] : a \in {0, 200}, t \in {0, 7}, x \in {0, 128}}
WireKeys ==
    {<<[add |-> a, rot |-> t, xor |-> x]>> :
        a \in 0..U8_MAX, t \in 0..ROT_MAX, x \in {0, 127, 255}}
    \cup UNION {[1..n -> WireRounds] : n \in 2..MaxKeyRounds}
    \cup LongKeys
    \cup {[i \in 1..MAX_ROUNDS |-> [add |-> 0, rot |-> 0, xor |-> 0]]}

InitKey ==
    /\ DataIdle
    /\ SearchIdle
    /\ bits = U8_BITS
    /\ wire_key \in WireKeys
    /\ round_count = Len(wire_key)
    /\ worker_total = 1
    /\ worker_ctxs = <<>>
    /\ keys_total = <<>>
    /\ main_pc = "contexts"
    /\ PermuteIdle
    /\ CodecIdle
    /\ net_key = <<>>
    /\ key_stage = "key"
    /\ decoded = [ok |-> FALSE, key |-> <<>>]
    /\ rendered = [ok |-> FALSE, str |-> <<>>]
    /\ ArgsIdle

NextKey ==
    \/ SendMatch
    \/ ReceiveMatch

SpecKey == InitKey /\ [][NextKey]_vars

(***************************************************************************)
(* The search run: main of src/src/bin/search.rs from the key dump file on *)
(* (the coordinator) and the scoped threads it spawns (the workers), which *)
(* talk through one bounded channel.  The units are explored at a reduced  *)
(* width and the channel at reduced bounds as well as at its own.          *)
(***************************************************************************)
\* bounds of the search runs explored
MaxSearchRounds == 2
MaxSearchKeys == 16
MaxSearchWorkers == 2
MaxReducedCapacity == 1
MaxFaults == 1

\* prost string field: key, length, bytes; a plain string that is empty is
\* not written, an optional one that is Some is
encode_string_field(tag, bytes, optional) ==
    IF bytes = <<>> /\ ~optional THEN <<>>
    ELSE encode_key(tag, WIRE_LENGTH_DELIMITED) \o encode_varint(Len(bytes)) \o bytes

\* KeyDumpMeta { build_hash, cipher_name, cipher_config }.encode_to_vec():
\* the three fields in tag order, with no length before them
KeyDumpMeta_encode_to_vec(meta) ==
    encode_string_field(1, meta.build_hash, FALSE)
        \o encode_string_field(2, meta.cipher_name, FALSE)
        \o (IF meta.cipher_config.some
            THEN encode_string_field(3, meta.cipher_config.value, TRUE)
            ELSE <<>>)

\* the header main builds: args.cipher and args.config as they were given
DumpMeta ==
    [build_hash |-> build_hash,
     cipher_name |-> cli_args.cipher,
     cipher_config |-> cli_args.config]

\* a TaskPacket; `from` is the thread that sent it (not a field of the packet)
Packet(kind, from, wid, keys, buffer) ==
    [kind |-> kind, from |-> from, worker_id |-> wid, keys |-> keys, net_key |-> buffer]

\* a line of stdout
Line(line, n, text) == [line |-> line, n |-> n, text |-> text]

\* the thread spawned for a worker context, before search_task runs
SpawnedWorker == [pc |-> "compile", key |-> <<>>, visited |-> 0, sent |-> <<>>, tx |-> TRUE]

\* main from the key dump file to the receive loop, with `header` what the
\* write of the header put in the file: the contexts are created and
\* totalled, the preamble is printed, the workers are spawned and main's
\* own tx is dropped
SetupWith(header) ==
    /\ main_pc = "init"
    /\ exit_code = -1
    /\ dump_file' = header
    /\ LET ctxs == [i \in 1..worker_total |->
                        create_worker_context_parallel(bits, round_count, i - 1, worker_total)]
       IN  IF \E i \in 1..worker_total : ctxs[i].panic
           THEN /\ main_pc' = "exited"
                /\ exit_code' = 101
                /\ UNCHANGED <<worker_ctxs, keys_total, workers, workers_waiting, stdout>>
           ELSE /\ main_pc' = "running"
                /\ worker_ctxs' = ctxs
                /\ keys_total' = SumTotals(ctxs, 1, worker_total, bits)
                /\ stdout' = <<Line("searching", worker_total, <<>>)>>
                /\ workers' = [i \in 1..worker_total |-> SpawnedWorker]
                /\ workers_waiting' = worker_total
                /\ UNCHANGED exit_code
    /\ UNCHANGED <<chan, keys_checked, keys_checked_since_last_print, received>>
    /\ UNCHANGED <<searchCfgVars, codecVars, keyVars, dataVars, cfgVars, permVars, obsVars>>

\* the setup when the file, if there is one, takes the whole header
SearchSetup ==
    /\ SetupWith(IF key_dump THEN KeyDumpMeta_encode_to_vec(DumpMeta) ELSE <<>>)
    /\ UNCHANGED faults

\* the write of the header returns Ok(n) with n below its length (explored:
\* nothing written, all but the last byte): the count is not looked at
SetupHeaderShort ==
    /\ key_dump
    /\ faults < MaxFaults
    /\ faults' = faults + 1
    /\ LET header == KeyDumpMeta_encode_to_vec(DumpMeta)
       IN  \E n \in {0, Len(header) - 1} : SetupWith(SubSeq(header, 1, n))

\* File::create_new or the write of the header returns Err: main returns it
\* before any worker exists and main_error_wrap! exits with 1
SetupDumpFails ==
    /\ main_pc = "init"
    /\ exit_code = -1
    /\ key_dump
    /\ main_pc' = "exited"
    /\ exit_code' = 1
    /\ UNCHANGED <<worker_ctxs, keys_total, workers, chan, workers_waiting, keys_checked,
                   keys_checked_since_last_print, received, dump_file, faults, stdout>>
    /\ UNCHANGED <<searchCfgVars, codecVars, keyVars, dataVars, cfgVars, permVars, obsVars>>

\* whether jit_fn.call() answers true for the key
Matches(k) ==
    \/ predicate = "all"
    \/ predicate = "some" /\ k[Len(k)].xor = UnitMax(bits)

\* SyncSender::send returns once the packet is in the channel, which takes
\* room in it; the packet goes behind the packets sent before
HasRoomBelowBound == Len(chan) < capacity - 1
HasRoom == Len(chan) < capacity
ChannelSendInFront(queue, packet) == <<packet>> \o queue
ChannelSend(queue, packet) == Append(queue, packet)

\* after the loops of the last round ended and chunk_callback returned true:
\* the loops of rounds j, j - 1, ... advance (the innermost that has a next
\* assignment does, the rounds inside it start again), or all are over
RECURSIVE AdvanceOuter(_, _, _)
AdvanceOuter(k, c, j) ==
    IF j = 0 THEN [over |-> TRUE, key |-> k]
    ELSE IF LoopHasNext(k[j], AddMaxOf(c, j - 1, bits), bits)
    THEN [over |-> FALSE,
          key |-> [i \in 1..Len(k) |->
                      IF i < j THEN k[i]
                      ELSE IF i = j THEN LoopNext(k[j], bits)
                      ELSE RoundFirst(0)]]
    ELSE AdvanceOuter(k, c, j - 1)

\* search_task up to permute_keys_interruptible and into its first loop
\* body: the predicate compiled
WorkerCompiles(i) ==
    /\ workers[i].pc = "compile"
    /\ LET c == worker_ctxs[i]
           fresh == [j \in 1..c.round_count |-> DefaultRound]
       IN  IF c.round_count = 0
           THEN \* permute_keys_interruptible returns at once
                workers' = [workers EXCEPT ![i].pc = "finished"]
           ELSE workers' = [workers EXCEPT ![i].pc = "key",
                                           ![i].key = [fresh EXCEPT ![1] = RoundFirst(c.a_min)]]
    /\ UNCHANGED chan

\* search_task returns Err before it enumerates: the predicate does not
\* compile, or is no boolean
WorkerCompileFails(i) ==
    /\ workers[i].pc = "compile"
    /\ workers' = [workers EXCEPT ![i].pc = "failed"]
    /\ UNCHANGED chan

\* the key callback on the key of the loops, then the loops of the last
\* round advance or end
WorkerKey(i) ==
    /\ workers[i].pc = "key"
    /\ LET w == workers[i]
           c == worker_ctxs[i]
           n == c.round_count
           next == IF LoopHasNext(w.key[n], AddMaxOf(c, n - 1, bits), bits)
                   THEN [w EXCEPT !.key[n] = LoopNext(w.key[n], bits),
                                  !.visited = w.visited + 1]
                   ELSE [w EXCEPT !.pc = "chunk", !.visited = w.visited + 1]
       IN  IF Matches(w.key)
           THEN /\ HasRoom
                /\ chan' = ChannelSend(chan, Packet("Match", i, 0, 0, encode_to_buffer(w.key)))
                /\ workers' = [workers EXCEPT ![i] = [next EXCEPT !.sent = Append(w.sent, "Match")]]
           ELSE /\ workers' = [workers EXCEPT ![i] = next]
                /\ UNCHANGED chan

\* the chunk callback: a Progress packet, and true to the enumeration, whose
\* outer loops go on or end; with one round it is the end
WorkerChunkNeverBlocks(i) ==
    /\ workers[i].pc = "chunk"
    /\ LET w == workers[i]
           c == worker_ctxs[i]
           count == IF c.round_count = 1 THEN FinalChunk(c, bits) ELSE RoundChunk(bits)
           outer == AdvanceOuter(w.key, c, c.round_count - 1)
       IN  /\ chan' = ChannelSend(chan, Packet("Progress", i, 0, count, <<>>))
           /\ workers' = [workers EXCEPT
                            ![i].sent = Append(w.sent, "Progress"),
                            ![i].pc = IF outer.over THEN "finished" ELSE "key",
                            ![i].key = outer.key]
WorkerChunk(i) ==
    /\ workers[i].pc = "chunk"
    /\ HasRoom
    /\ LET w == workers[i]
           c == worker_ctxs[i]
           count == IF c.round_count = 1 THEN FinalChunk(c, bits) ELSE RoundChunk(bits)
           outer == AdvanceOuter(w.key, c, c.round_count - 1)
       IN  /\ chan' = ChannelSend(chan, Packet("Progress", i, 0, count, <<>>))
           /\ workers' = [workers EXCEPT
                            ![i].sent = Append(w.sent, "Progress"),
                            ![i].pc = IF outer.over THEN "finished" ELSE "key",
                            ![i].key = outer.key]

\* the end of the thread: Finished after Ok, Error after Err, then the
\* thread's tx is dropped
WorkerTerminalGoesOn(i) ==
    /\ workers[i].pc \in {"finished", "failed"}
    /\ HasRoom
    /\ LET kind == IF workers[i].pc = "finished" THEN "Finished" ELSE "Error"
       IN  /\ chan' = ChannelSend(chan, Packet(kind, i, i - 1, 0, <<>>))
           /\ workers' = [workers EXCEPT ![i].sent = Append(workers[i].sent, kind)]
WorkerTerminalDropsError(i) ==
    /\ workers[i].pc \in {"finished", "failed"}
    /\ IF workers[i].pc = "finished"
       THEN /\ HasRoom
            /\ chan' = ChannelSend(chan, Packet("Finished", i, i - 1, 0, <<>>))
            /\ workers' = [workers EXCEPT ![i].sent = Append(workers[i].sent, "Finished"),
                                          ![i].pc = "done",
                                          ![i].tx = FALSE]
       ELSE /\ chan' = chan
            /\ workers' = [workers EXCEPT ![i].pc = "done", ![i].tx = FALSE]
WorkerTerminal(i) ==
    /\ workers[i].pc \in {"finished", "failed"}
    /\ HasRoom
    /\ LET kind == IF workers[i].pc = "finished" THEN "Finished" ELSE "Error"
       IN  /\ chan' = ChannelSend(chan, Packet(kind, i, i - 1, 0, <<>>))
           /\ workers' = [workers EXCEPT ![i].sent = Append(workers[i].sent, kind),
                                         ![i].pc = "done",
                                         ![i].tx = FALSE]

\* a panic in search_task unwinds the thread: its tx is dropped, nothing is
\* sent
WorkerPanics(i) ==
    /\ workers[i].pc \in {"compile", "key", "chunk"}
    /\ workers' = [workers EXCEPT ![i].pc = "panicked", ![i].tx = FALSE]
    /\ UNCHANGED chan

WorkerFrame ==
    /\ main_pc \in {"running", "closure_ok", "closure_err", "closure_panic"}
    /\ UNCHANGED <<worker_ctxs, keys_total, main_pc, workers_waiting, keys_checked,
                   keys_checked_since_last_print, received, dump_file, stdout, exit_code>>
    /\ UNCHANGED <<searchCfgVars, codecVars, keyVars, dataVars, cfgVars, permVars, obsVars>>

\* a step of the thread of worker i
WorkerStepOf(i) ==
    /\ i <= Len(workers)
    /\ WorkerFrame
    /\ \/ WorkerCompiles(i)
       \/ WorkerCompileFails(i)
       \/ WorkerKey(i)
       \/ WorkerChunk(i)
       \/ WorkerTerminal(i)
    /\ UNCHANGED faults

WorkerStep == \E i \in 1..Len(workers) : WorkerStepOf(i)

WorkerFault == \E i \in 1..Len(workers) :
    /\ WorkerFrame
    /\ WorkerPanics(i)
    /\ faults < MaxFaults
    /\ faults' = faults + 1

\* print_progress(time_range, .., keys_total, keys_checked, ..): the percentage
\* is 100 when keys_total is 0 and keys_checked * 100 / keys_total otherwise,
\* kept here as the pair of numerator and denominator; with a time range the
\* time left is taken from Rational::from((keys_total - keys_checked,
\* keys_checked)), which panics when keys_checked is 0
print_progress(time_range, total, checked) ==
    [panic |-> time_range /\ checked = <<>>,
     percent |-> IF total = <<>> THEN <<BigFromInt(100), BigFromInt(1)>>
                 ELSE <<BigMulInt(checked, 100), total>>]

\* the end of an iteration of the receive loop: when 5 seconds have passed
\* since the last print, the keys since then are added to keys_checked and
\* a progress line is printed
PeriodicPrintForgetsKeys(since, due) ==
    /\ keys_checked' = keys_checked
    /\ keys_checked_since_last_print' = IF due THEN <<>> ELSE since
PeriodicPrintKeepsSince(since, due) ==
    /\ keys_checked' = IF due THEN BigAdd(keys_checked, since) ELSE keys_checked
    /\ keys_checked_since_last_print' = since
PeriodicPrint(since, due) ==
    IF due
    THEN /\ ~print_progress(TRUE, keys_total, BigAdd(keys_checked, since)).panic
         /\ keys_checked' = BigAdd(keys_checked, since)
         /\ keys_checked_since_last_print' = <<>>
    ELSE /\ keys_checked' = keys_checked
         /\ keys_checked_since_last_print' = since

\* the same place when the 5 seconds have passed and print_progress panics:
\* the closure unwinds before last_print and the count since are reset
PeriodicPrintPanics(since) ==
    /\ print_progress(TRUE, keys_total, BigAdd(keys_checked, since)).panic
    /\ keys_checked' = BigAdd(keys_checked, since)
    /\ keys_checked_since_last_print' = since
    /\ main_pc' = "closure_panic"

\* `while workers_waiting > 0`
LoopContinuesAboveOne(waiting) == waiting > 1
LoopContinues(waiting) == waiting > 0

\* the packets on which main does `workers_waiting -= 1`
CountsOnlyFinished(kind) == kind = "Finished"
CountsAsTerminated(kind) == kind \in {"Finished", "Error"}

\* the runs explored: the unit widths up to MaxBits and the round counts up
\* to MaxSearchRounds with one worker, as far as the keyspace has at most
\* MaxSearchKeys keys; one round with up to MaxSearchWorkers workers
SearchRuns ==
    {run \in (1..MaxBits) \X (1..MaxSearchRounds) \X (1..MaxSearchWorkers) :
        /\ run[3] <= get_max_parallelism(run[1])
        /\ (run[3] = 1 \/ run[2] = 1)
        /\ CappedPow(KeysPerRound(run[1]), run[2], MaxSearchKeys) <= MaxSearchKeys}

\* cipher.net_key_to_boxed_str(&net_key) on the buffer of a Match: computed
\* once for each buffer that encode_to_buffer gives on a key of the runs
\* explored, and on the spot for any other buffer
SearchKeyBuffers ==
    {encode_to_buffer(k) :
        k \in UNION {[1..run[2] -> [add : 0..UnitMax(run[1]),
                                   rot : 0..RotMax(run[1]),
                                   xor : 0..UnitMax(run[1])]] : run \in SearchRuns}}
BoxedStrTable == [buffer \in SearchKeyBuffers |-> net_key_to_boxed_str(buffer)]
BoxedStr(buffer) ==
    IF buffer \in SearchKeyBuffers THEN BoxedStrTable[buffer]
    ELSE net_key_to_boxed_str(buffer)

CoordinatorFrame ==
    /\ main_pc = "running"
    /\ LoopContinues(workers_waiting)
    /\ UNCHANGED <<worker_ctxs, keys_total, workers, exit_code>>
    /\ UNCHANGED <<searchCfgVars, codecVars, keyVars, dataVars, cfgVars, permVars, obsVars>>

\* recv_timeout returns Ok(packet): the packet is handled, then the
\* periodic print, which goes through (print_panics FALSE) or panics.  A
\* Match goes to the dump file, all of it, or is rendered and printed.
CoordinatorHandles(print_panics) ==
    /\ CoordinatorFrame
    /\ chan # <<>>
    /\ LET packet == Head(chan)
           str == BoxedStr(packet.net_key)
       IN  /\ chan' = Tail(chan)
           /\ received' = Append(received, packet)
           /\ workers_waiting' = IF CountsAsTerminated(packet.kind)
                                 THEN workers_waiting - 1 ELSE workers_waiting
           /\ dump_file' = IF packet.kind = "Match" /\ key_dump
                           THEN dump_file \o packet.net_key ELSE dump_file
           /\ UNCHANGED faults
           /\ IF packet.kind = "Match" /\ ~key_dump /\ ~str.ok
              THEN \* net_key_to_boxed_str(..)? returns the error
                   /\ main_pc' = "closure_err"
                   /\ UNCHANGED <<stdout, keys_checked, keys_checked_since_last_print>>
              ELSE /\ stdout' =
                        IF packet.kind = "Finished"
                        THEN Append(stdout, Line("finished", packet.worker_id, <<>>))
                        ELSE IF packet.kind = "Error"
                        THEN \* worker_id is main's counter here, not a field
                             Append(stdout, Line("errored", worker_total, <<>>))
                        ELSE IF packet.kind = "Match" /\ ~key_dump
                        THEN Append(stdout, Line("matched", 0, str.str))
                        ELSE stdout
                   /\ LET since == IF packet.kind = "Progress"
                                   THEN BigAdd(keys_checked_since_last_print,
                                               BigFromInt(packet.keys))
                                   ELSE keys_checked_since_last_print
                      IN  IF print_panics
                          THEN PeriodicPrintPanics(since)
                          ELSE /\ main_pc' = main_pc
                               /\ \E due \in BOOLEAN : PeriodicPrint(since, due)

CoordinatorReceives == CoordinatorHandles(FALSE)

\* a Match is received and file.write returns Err: main returns it
CoordinatorWriteFails ==
    /\ CoordinatorFrame
    /\ chan # <<>>
    /\ Head(chan).kind = "Match"
    /\ key_dump
    /\ chan' = Tail(chan)
    /\ received' = Append(received, Head(chan))
    /\ faults < MaxFaults
    /\ faults' = faults + 1
    /\ main_pc' = "closure_err"
    /\ UNCHANGED <<workers_waiting, dump_file, stdout, keys_checked,
                   keys_checked_since_last_print>>

\* a Match is received and file.write returns Ok(n) with n below the length
\* of the key (explored: nothing written, all but the last byte written):
\* the count is not looked at, the loop goes on
CoordinatorWritesShort(print_panics) ==
    /\ CoordinatorFrame
    /\ chan # <<>>
    /\ Head(chan).kind = "Match"
    /\ key_dump
    /\ faults < MaxFaults
    /\ faults' = faults + 1
    /\ chan' = Tail(chan)
    /\ received' = Append(received, Head(chan))
    /\ \E n \in {0, Len(Head(chan).net_key) - 1} :
          dump_file' = dump_file \o SubSeq(Head(chan).net_key, 1, n)
    /\ IF print_panics
       THEN PeriodicPrintPanics(keys_checked_since_last_print)
       ELSE /\ main_pc' = main_pc
            /\ \E due \in BOOLEAN : PeriodicPrint(keys_checked_since_last_print, due)
    /\ UNCHANGED <<workers_waiting, stdout>>

CoordinatorWriteShort == CoordinatorWritesShort(FALSE)

\* recv_timeout returns Err(Timeout): the channel stayed empty for a second
\* while some tx was alive
CoordinatorTimesOut(print_panics) ==
    /\ CoordinatorFrame
    /\ chan = <<>>
    /\ \E i \in 1..Len(workers) : workers[i].tx
    /\ IF print_panics
       THEN PeriodicPrintPanics(keys_checked_since_last_print)
       ELSE /\ main_pc' = main_pc
            /\ \E due \in BOOLEAN : PeriodicPrint(keys_checked_since_last_print, due)
    /\ UNCHANGED <<chan, workers_waiting, received, dump_file, faults, stdout>>

CoordinatorTimeout == CoordinatorTimesOut(FALSE)

\* an iteration of the receive loop whose periodic print panics
CoordinatorPrintPanics ==
    \/ CoordinatorHandles(TRUE)
    \/ CoordinatorWritesShort(TRUE)
    \/ CoordinatorTimesOut(TRUE)

\* recv_timeout returns Err(Disconnected): the channel is empty and every tx
\* is dropped
CoordinatorDisconnected ==
    /\ CoordinatorFrame
    /\ chan = <<>>
    /\ \A i \in 1..Len(workers) : ~workers[i].tx
    /\ stdout' = Append(stdout, Line("disconnected", 0, <<>>))
    /\ main_pc' = "closure_err"
    /\ UNCHANGED <<chan, workers_waiting, received, dump_file, faults, keys_checked,
                   keys_checked_since_last_print>>

\* workers_waiting is 0: the loop ends, the last keys are added and the
\* final progress line is printed; the closure returns Ok
CoordinatorDrained ==
    /\ main_pc = "running"
    /\ ~LoopContinues(workers_waiting)
    /\ keys_checked' = BigAdd(keys_checked, keys_checked_since_last_print)
    /\ stdout' = Append(stdout, Line("progress", 0, <<>>))
    /\ main_pc' = "closure_ok"
    /\ UNCHANGED <<worker_ctxs, keys_total, workers, chan, workers_waiting,
                   keys_checked_since_last_print, received, dump_file, faults,
                   exit_code>>
    /\ UNCHANGED <<searchCfgVars, codecVars, keyVars, dataVars, cfgVars, permVars, obsVars>>

\* thread::scope returns once the closure has returned or panicked and every
\* spawned thread has ended; it panics if the closure or one of the threads
\* panicked (exit code 101); otherwise main returns 0, or main_error_wrap!
\* exits with 1 on Err
ScopeJoins ==
    /\ main_pc \in {"closure_ok", "closure_err", "closure_panic"}
    /\ \A i \in 1..Len(workers) : workers[i].pc \in {"done", "panicked"}
    /\ exit_code' = IF \/ main_pc = "closure_panic"
                       \/ \E i \in 1..Len(workers) : workers[i].pc = "panicked"
                    THEN 101
                    ELSE IF main_pc = "closure_ok" THEN 0
                    ELSE 1
    /\ main_pc' = "exited"
    /\ UNCHANGED <<worker_ctxs, keys_total, workers, chan, workers_waiting, keys_checked,
                   keys_checked_since_last_print, received, dump_file, faults, stdout>>
    /\ UNCHANGED <<searchCfgVars, codecVars, keyVars, dataVars, cfgVars, permVars, obsVars>>

\* GIT_HASH: the output of `git rev-parse HEAD` at build time, empty when the
\* build is outside a repository; the empty one is explored with the run of
\* one round and one worker
BuildHashes(rounds, total) ==
    IF rounds = 1 /\ total = 1 THEN {<<>>, <<97, 98, 99>>} ELSE {<<97, 98, 99>>}

InitSearch ==
    /\ DataIdle
    /\ \E run \in SearchRuns :
          /\ bits = run[1]
          /\ round_count = run[2]
          /\ worker_total = run[3]
    /\ capacity \in (1..MaxReducedCapacity) \cup {CHANNEL_CAPACITY}
    /\ key_dump \in BOOLEAN
    /\ build_hash \in IF key_dump THEN BuildHashes(round_count, worker_total) ELSE {<<>>}
    /\ predicate \in {"all", "none", "some"}
    /\ worker_ctxs = <<>>
    /\ keys_total = <<>>
    /\ main_pc = "init"
    /\ workers = <<>>
    /\ chan = <<>>
    /\ workers_waiting = 0
    /\ keys_checked = <<>>
    /\ keys_checked_since_last_print = <<>>
    /\ received = <<>>
    /\ dump_file = <<>>
    /\ faults = 0
    /\ stdout = <<>>
    /\ exit_code = -1
    /\ PermuteIdle
    /\ CodecIdle
    /\ KeyIdle
    /\ ArgsIdle

\* the steps of a run in which nothing fails but a predicate to compile
NextDrain ==
    \/ SearchSetup
    \/ WorkerStep
    \/ CoordinatorReceives
    \/ CoordinatorTimeout
    \/ CoordinatorDrained
    \/ ScopeJoins

\* and with what can fail: the dump file, a worker that panics, a periodic
\* print that panics
NextSearch ==
    \/ NextDrain
    \/ CoordinatorPrintPanics
    \/ SetupDumpFails
    \/ SetupHeaderShort
    \/ WorkerFault
    \/ CoordinatorWriteFails
    \/ CoordinatorWriteShort
    \/ CoordinatorDisconnected

SpecSearch == InitSearch /\ [][NextSearch]_vars

\* the runs in which nothing fails, under the scheduling of the operating
\* system: a thread that can take a step does not wait forever, and neither
\* does main
SpecDrain ==
    /\ InitSearch
    /\ [][NextDrain]_vars
    /\ \A i \in 1..MaxSearchWorkers : WF_vars(WorkerStepOf(i))
    /\ WF_vars(SearchSetup)
    /\ WF_vars(CoordinatorReceives)
    /\ WF_vars(CoordinatorDrained)
    /\ WF_vars(ScopeJoins)

(***************************************************************************)
(* Claims over SpecSlice.                                                  *)
(***************************************************************************)
InRange(c, x) == c.a_min <= x /\ x <= c.a_max

\* C1: for every worker_total in 1..=256 and every round count in 1..=8 the
\* contexts of workers 0..W-1 are created without a panic, their first-round
\* add ranges [a_min, a_max] are non-empty, pairwise disjoint, and their
\* union is exactly [0, 255].
C1_ExactCoverage ==
    /\ main_pc # "panic"
    /\ main_pc = "contexts" =>
        /\ Len(worker_ctxs) = worker_total
        /\ \A i \in 1..worker_total :
              /\ 0 <= worker_ctxs[i].a_min
              /\ worker_ctxs[i].a_min <= worker_ctxs[i].a_max
              /\ worker_ctxs[i].a_max <= U8_MAX
        /\ \A i \in 1..worker_total : \A j \in (i + 1)..worker_total :
              \/ worker_ctxs[i].a_max < worker_ctxs[j].a_min
              \/ worker_ctxs[j].a_max < worker_ctxs[i].a_min
        /\ \A x \in 0..U8_MAX : \E i \in 1..worker_total : InRange(worker_ctxs[i], x)

\* Three workers: 256 is not a multiple of 3 and the slices are 0..84,
\* 85..169 and 170..255.
C1_Witness ==
    /\ main_pc = "contexts"
    /\ worker_total = 3
    /\ worker_ctxs[1].a_min = 0 /\ worker_ctxs[1].a_max = 84
    /\ worker_ctxs[2].a_min = 85 /\ worker_ctxs[2].a_max = 169
    /\ worker_ctxs[3].a_min = 170 /\ worker_ctxs[3].a_max = 255

\* C3: the sum of get_total_keys() over the W worker contexts, which is the
\* coordinator's keys_total, equals get_total_keys() of the single-worker
\* context, and that is 524288^N (144115188075855872 for N = 3).
C3_TotalsAddUp ==
    main_pc = "contexts" =>
        /\ keys_total = get_total_keys(create_worker_context_parallel(bits, round_count, 0, 1), bits)
        /\ keys_total = BigPow(KEYS_PER_ROUND, round_count)
        /\ round_count = 3 => keys_total = <<872, 855, 75, 188, 115, 144>>

C3_Witness ==
    /\ main_pc = "contexts"
    /\ worker_total = 7
    /\ round_count = 3
    /\ keys_total = <<872, 855, 75, 188, 115, 144>>

(***************************************************************************)
(* Claims over SpecPermute.                                                *)
(***************************************************************************)
\* the rounds with add in lo..hi, every xor and every rot
RoundSet(b, lo, hi) ==
    {[add |-> a, rot |-> t, xor |-> x] : a \in lo..hi, t \in 0..RotMax(b), x \in 0..UnitMax(b)}

\* the partition of a worker context: add in [a_min, a_max] in round 0,
\* every add in the later rounds, every xor and rot in every round
PartitionKeys(c, b) ==
    {<<first>> \o rest : first \in RoundSet(b, c.a_min, c.a_max),
                         rest \in [1..(c.round_count - 1) -> RoundSet(b, 0, UnitMax(b))]}

InPartition(c, b, k) ==
    /\ Len(k) = c.round_count
    /\ \A i \in 1..Len(k) :
          /\ k[i].add \in (IF i = 1 THEN c.a_min ELSE 0)..(IF i = 1 THEN c.a_max ELSE UnitMax(b))
          /\ k[i].xor \in 0..UnitMax(b)
          /\ k[i].rot \in 0..RotMax(b)

Uninterrupted == pc = "done" /\ ~stopped

\* C2: an uninterrupted permute_keys_interruptible invokes on_key exactly
\* once for every key of the worker's partition and for no other key, and the
\* number of invocations equals get_total_keys(): every key visited is in the
\* partition, no key is visited twice, and at the end the keys visited are
\* the whole partition.
C2_EachKeyOnce ==
    /\ keys_visited > 0 => InPartition(ctx, bits, last_key)
    /\ Cardinality(seen) = keys_visited
    /\ Uninterrupted =>
        /\ seen = PartitionKeys(ctx, bits)
        /\ BigFromInt(keys_visited) = get_total_keys(ctx, bits)

\* worker 1 of 2, three rounds of 1-bit units: 32 of the 64 keys
C2_Witness ==
    /\ Uninterrupted
    /\ round_count = 3
    /\ worker_total = 2
    /\ worker_id = 1
    /\ keys_visited = 32

\* C4: when permute runs to completion, the sum of the counts passed to
\* on_chunk equals get_total_keys() of the worker's partition.
C4_ChunksSumToTotal ==
    Uninterrupted => BigFromInt(chunk_sum) = get_total_keys(ctx, bits)

\* worker 1 of 3, two rounds of 2-bit units: adds [1, 1], 8 chunks of 32 keys
C4_Witness ==
    /\ Uninterrupted
    /\ bits = 2
    /\ round_count = 2
    /\ worker_total = 3
    /\ worker_id = 1
    /\ chunk_calls = 8
    /\ chunk_sum = 256

\* x <= u32::MAX, for x >= 0
FitsU32(x) == x \div 65536 < 65536

\* C5: every on_chunk call carries exactly the number of on_key invocations
\* made since the previous on_chunk call (or since the start), and never more
\* than 2^32 - 1: KEYS_PER_ROUND per call when N > 1 (524288, the number of
\* bodies the loops of a round run at the real width), and
\* (a_max - a_min + 1) * 2048 in a single call at the end when N == 1.
C5_ChunkCarriesKeysSince ==
    /\ KEYS_PER_ROUND = (U8_MAX + 1) * (U8_MAX + 1) * (ROT_MAX + 1)
    /\ FitsU32(since_chunk)
    /\ chunk_calls > 0 =>
        /\ last_chunk = last_since
        /\ FitsU32(last_chunk)
        /\ round_count > 1 => last_chunk = KeysPerRound(bits)
        /\ round_count = 1 =>
              /\ last_chunk = (ctx.a_max - ctx.a_min + 1) * KeysPerAdd(bits)
              /\ chunk_calls = 1
              /\ pc = "done"
              /\ since_chunk = 0

\* one round of 2-bit units, worker 2 of 3 (adds 2 and 3): one chunk of 16 keys
C5_Witness ==
    /\ bits = 2
    /\ round_count = 1
    /\ worker_total = 3
    /\ worker_id = 2
    /\ pc = "done"
    /\ chunk_calls = 1
    /\ last_chunk = 16
    /\ keys_visited = 16

\* C6: once on_chunk has returned stop (false), permute_keys_interruptible
\* invokes neither on_key nor on_chunk again and is returning: every frame
\* passes the false on to its caller, whatever the depth and round count.
C6_StopIsFinal ==
    /\ [](stopped => (pc = "done" \/ (pc = "returned" /\ ~ret)))
    /\ [][stopped => (keys_visited' = keys_visited /\ chunk_calls' = chunk_calls)]_vars

\* three rounds: the second chunk returned false two calls deep, and
\* permute_keys_interruptible has returned
C6_Witness ==
    /\ stopped
    /\ pc = "done"
    /\ round_count = 3
    /\ chunk_calls = 2
    /\ keys_visited = 8

\* the k-th key (k = 0, 1, ..) in lexicographic order, round 0 most
\* significant and, inside a round, add slowest, then xor, then rot fastest,
\* of the partition of worker wid of total with n rounds
VisitOrder(wid, total, n, b, k) ==
    LET per == (UnitMax(b) + 1) * (UnitMax(b) + 1) * (RotMax(b) + 1)
        first_add == SliceMin(UnitMax(b), wid, total)
        digit(i) == IF i = 1 THEN k \div IntPow(per, n - 1)
                    ELSE (k \div IntPow(per, n - i)) % per
    IN  [i \in 1..n |->
            [add |-> (IF i = 1 THEN first_add ELSE 0)
                        + (digit(i) \div ((RotMax(b) + 1) * (UnitMax(b) + 1))),
             rot |-> digit(i) % (RotMax(b) + 1),
             xor |-> (digit(i) \div (RotMax(b) + 1)) % (UnitMax(b) + 1)]]

\* C7: the sequence of keys a worker visits is a function of (worker_id,
\* worker_total, round count) only: the k-th key_callback invocation gets the
\* k-th key of the partition in lexicographic order, whatever the callbacks do.
C7_DeterministicOrder ==
    keys_visited > 0 =>
        last_key = VisitOrder(worker_id, worker_total, round_count, bits, keys_visited - 1)

\* worker 1 of 2, two rounds of 2-bit units: its 100th key
C7_Witness ==
    /\ bits = 2
    /\ round_count = 2
    /\ worker_total = 2
    /\ worker_id = 1
    /\ keys_visited = 100
    /\ last_key = <<[add |-> 2, rot |-> 1, xor |-> 1], [add |-> 0, rot |-> 1, xor |-> 1]>>

(***************************************************************************)
(* Claims over SpecCodec.                                                  *)
(***************************************************************************)
\* C8: for every key and every byte, encrypting the decryption and
\* decrypting the encryption give the byte back: a codec context of one
\* direction followed by one of the other direction with the same key
\* returns the original messages, unit by unit.
C8_RoundTrip ==
    codec_stage = 2 =>
        /\ Len(final_messages) = Len(input_messages)
        /\ \A m \in 1..Len(input_messages) :
              /\ Len(final_messages[m]) = Len(input_messages[m])
              /\ \A u \in 1..Len(input_messages[m]) :
                    final_messages[m][u] = input_messages[m][u]

\* "Hello" under rounds (a=3, r=1, x=0), (a=0, r=0, x=5): encrypted to
\* 151 189 207 207 209, then decrypted to "Hello"
C8_Witness ==
    /\ codec_stage = 2
    /\ ~decrypt_first
    /\ codec_key = <<[add |-> 3, rot |-> 1, xor |-> 0], [add |-> 0, rot |-> 0, xor |-> 5]>>
    /\ mid_messages[2] = <<151, 189, 207, 207, 209>>
    /\ final_messages[2] = Hello

\* the reference definition, on the bits of a byte: bit i has weight 2^i
ToBits(x) == [i \in 0..(U8_BITS - 1) |-> (x \div Pow2(i)) % 2]
RECURSIVE FromBitsFrom(_, _)
FromBitsFrom(f, i) == IF i = U8_BITS THEN 0 ELSE f[i] + 2 * FromBitsFrom(f, i + 1)
FromBits(f) == FromBitsFrom(f, 0)
\* rotating right by n moves bit i + n to bit i; rotating left moves bit i - n
RefRorBits(x, n) == FromBits([i \in 0..(U8_BITS - 1) |-> ToBits(x)[(i + n) % U8_BITS]])
RefRolBits(x, n) == FromBits([i \in 0..(U8_BITS - 1) |-> ToBits(x)[(i + U8_BITS - n) % U8_BITS]])
RefXorBits(x, y) == FromBits([i \in 0..(U8_BITS - 1) |-> IF ToBits(x)[i] = ToBits(y)[i] THEN 0 ELSE 1])
RefRorTable == [x \in 0..255 |-> [n \in 0..7 |-> RefRorBits(x, n)]]
RefRolTable == [x \in 0..255 |-> [n \in 0..7 |-> RefRolBits(x, n)]]
RefXorTable == [x \in 0..255 |-> [y \in 0..255 |-> RefXorBits(x, y)]]
RefRor(x, n) == RefRorTable[x][n]
RefRol(x, n) == RefRolTable[x][n]
RefXor(x, y) == RefXorTable[x][y]

\* decrypt: rounds first to last, b := ((b + add) mod 256 ror rot) xor xor
RECURSIVE RefDecrypt(_, _)
RefDecrypt(rounds, b) ==
    IF rounds = <<>> THEN b
    ELSE RefDecrypt(Tail(rounds),
                    RefXor(RefRor((b + Head(rounds).add) % 256, Head(rounds).rot), Head(rounds).xor))

\* encrypt: rounds last to first, b := ((b xor xor) rol rot) - add mod 256
RECURSIVE RefEncrypt(_, _)
RefEncrypt(rounds, b) ==
    IF rounds = <<>> THEN b
    ELSE LET last == rounds[Len(rounds)]
             diff == RefRol(RefXor(b, last.xor), last.rot) - last.add
         IN  RefEncrypt(SubSeq(rounds, 1, Len(rounds) - 1), IF diff < 0 THEN diff + 256 ELSE diff)

RefOutput(decrypt, rounds, b) == IF decrypt THEN RefDecrypt(rounds, b) ELSE RefEncrypt(rounds, b)

\* C9: the codec output equals the reference definition in both directions,
\* for every unit of every message.
C9_MatchesReference ==
    /\ codec_stage >= 1 =>
          \A m \in 1..Len(input_messages) : \A u \in 1..Len(input_messages[m]) :
              mid_messages[m][u] = RefOutput(decrypt_first, codec_key, input_messages[m][u])
    /\ codec_stage = 2 =>
          \A m \in 1..Len(mid_messages) : \A u \in 1..Len(mid_messages[m]) :
              final_messages[m][u] = RefOutput(~decrypt_first, codec_key, mid_messages[m][u])

\* decrypting with rounds (a=3, r=1, x=0), (a=0, r=0, x=5): 72 + 3 = 75,
\* rotated right by 1 is 165, then xor 5 is 160; byte 255 wraps to 2, 1, 4
C9_Witness ==
    /\ codec_stage = 1
    /\ decrypt_first
    /\ codec_key = <<[add |-> 3, rot |-> 1, xor |-> 0], [add |-> 0, rot |-> 0, xor |-> 5]>>
    /\ mid_messages[2][1] = 160
    /\ mid_messages[1][256] = 4

(***************************************************************************)
(* Claims over SpecKey.                                                    *)
(***************************************************************************)
\* C10: decoding the encoding of a key succeeds and gives the key back
\* round by round, rounds that are all zero included, and the string
\* rendered from the decoded key is the string rendered from the key.
C10_WireRoundTrip ==
    key_stage = "decoded" =>
        /\ decoded.ok
        /\ Len(decoded.key) = Len(wire_key)
        /\ \A i \in 1..Len(wire_key) :
              /\ decoded.key[i].add = wire_key[i].add
              /\ decoded.key[i].rot = wire_key[i].rot
              /\ decoded.key[i].xor = wire_key[i].xor
        /\ rendered.ok
        /\ rendered.str = to_string(wire_key)

\* a key whose first round is all zero and whose second round needs
\* two-byte varints
C10_Witness ==
    /\ key_stage = "decoded"
    /\ wire_key = <<[add |-> 0, rot |-> 0, xor |-> 0], [add |-> 200, rot |-> 7, xor |-> 128]>>
    /\ net_key = <<10, 0, 10, 8, 8, 200, 1, 16, 7, 24, 128, 1>>
    /\ Len(decoded.key) = 2
    /\ rendered.str = <<"[", "a", "2", "0", "0", "-", ">", "r", "7", "-", ">", "x", "1", "2", "8", "]">>

(***************************************************************************)
(* Claims over SpecSearch and SpecDrain.                                   *)
(***************************************************************************)

\* the Match packets main received, in order
RECURSIVE MatchesOf(_)
MatchesOf(packets) ==
    IF packets = <<>> THEN <<>>
    ELSE (IF Head(packets).kind = "Match" THEN <<Head(packets)>> ELSE <<>>)
            \o MatchesOf(Tail(packets))

\* a file read as length-delimited records from pos on: a varint length,
\* then that many bytes, until the bytes run out
RECURSIVE ReadDelimited(_, _, _)
ReadDelimited(file, pos, records) ==
    IF pos > Len(file) THEN [ok |-> TRUE, records |-> records]
    ELSE LET len == decode_varint(file, pos, Len(file))
         IN  IF ~len.ok \/ len.next + len.value - 1 > Len(file)
             THEN [ok |-> FALSE, records |-> records]
             ELSE ReadDelimited(file, len.next + len.value,
                                Append(records,
                                       SubSeq(file, len.next, len.next + len.value - 1)))

\* the dump file of a run in which every write took all its bytes
WholeWrites == key_dump /\ main_pc = "running" /\ faults = 0

\* C11: the key dump file can be read back without ambiguity because the
\* header and each key carry their own length delimiter: read as
\* length-delimited records, the file gives the header, then one record for
\* each Match received so far, which decodes to the key of that Match.
C11_RecordsAreDelimited ==
    WholeWrites =>
        LET read == ReadDelimited(dump_file, 1, <<>>)
            sent == MatchesOf(received)
        IN  /\ read.ok
            /\ Len(read.records) = 1 + Len(sent)
            /\ read.records[1] = KeyDumpMeta_encode_to_vec(DumpMeta)
            /\ \A j \in 1..Len(sent) :
                  from_buffer(read.records[j + 1]) = from_buffer(sent[j].net_key)

\* the net_key bytes of the packets, one after the other
RECURSIVE NetKeysOf(_)
NetKeysOf(packets) ==
    IF packets = <<>> THEN <<>>
    ELSE Head(packets).net_key \o NetKeysOf(Tail(packets))

\* C12: with a dump file, all the while main receives, the file is the
\* header followed by the net_key bytes of exactly the Match packets
\* received so far, in the order received and unmodified, and no match is
\* printed to stdout.
C12_FileIsHeaderThenMatches ==
    (key_dump /\ main_pc = "running") =>
        /\ dump_file = KeyDumpMeta_encode_to_vec(DumpMeta) \o NetKeysOf(MatchesOf(received))
        /\ \A j \in 1..Len(stdout) : stdout[j].line # "matched"

\* the terminal packets among the kinds a worker sent
TerminalKinds == {"Finished", "Error"}
TerminalsSent(i) ==
    Cardinality({j \in 1..Len(workers[i].sent) : workers[i].sent[j] \in TerminalKinds})

\* the keys of the partition of worker i
PartitionSize(i) == Cardinality(PartitionKeys(worker_ctxs[i], bits))

\* C13 as stated: every worker whose thread has ended, whichever way, sent
\* exactly one terminal packet.
C13_OneTerminalHoweverItEnds ==
    \A i \in 1..Len(workers) :
        workers[i].pc \in {"done", "panicked"} => TerminalsSent(i) = 1

\* C13 amended: a worker never sends more than one terminal packet; a thread
\* that has ended without a panic sent exactly one, Finished after it
\* visited its whole partition or Error after the predicate failed to compile
\* and no key was visited; a thread that panicked sent none, and neither has
\* a thread that still runs.
C13_OneTerminalUnlessPanic ==
    \A i \in 1..Len(workers) :
        LET w == workers[i]
        IN  /\ TerminalsSent(i) <= 1
            /\ w.pc = "done" =>
                  /\ TerminalsSent(i) = 1
                  /\ w.sent[Len(w.sent)] \in TerminalKinds
                  /\ w.sent[Len(w.sent)] = "Finished" => w.visited = PartitionSize(i)
                  /\ w.sent[Len(w.sent)] = "Error" => w.visited = 0 /\ Len(w.sent) = 1
            /\ w.pc # "done" => TerminalsSent(i) = 0

\* one worker ended with Finished, the other panicked after a packet
C13_Witness ==
    /\ Len(workers) = 2
    /\ workers[1].pc = "done"
    /\ workers[1].sent[Len(workers[1].sent)] = "Finished"
    /\ workers[2].pc = "panicked"
    /\ workers[2].sent # <<>>

\* the kinds of the packets from worker i among the packets, in order
RECURSIVE KindsFrom(_, _)
KindsFrom(packets, i) ==
    IF packets = <<>> THEN <<>>
    ELSE (IF Head(packets).from = i THEN <<Head(packets).kind>> ELSE <<>>)
            \o KindsFrom(Tail(packets), i)

\* C14: for each worker its Finished or Error packet is the last packet it
\* sends, and main receives the packets of one worker in the order sent:
\* what main received from the worker followed by what is still in the
\* channel from it is what the worker sent, so a terminal packet received
\* comes after every Progress and Match the worker sent before it.
C14_TerminalLastAndInOrder ==
    \A i \in 1..Len(workers) :
        LET sent == workers[i].sent
        IN  /\ \A j \in 1..Len(sent) : sent[j] \in TerminalKinds => j = Len(sent)
            /\ KindsFrom(received, i) \o KindsFrom(chan, i) = sent

\* main received the Finished of worker 1 behind a Match and the Progress of
\* that worker, with packets of worker 2 in between
C14_Witness ==
    /\ Len(workers) = 2
    /\ KindsFrom(received, 1) = <<"Match", "Progress", "Finished">>
    /\ \E j \in 2..Len(received) :
          /\ received[j].from = 1
          /\ received[j - 1].from = 2
          /\ \E k \in 1..(j - 1) : received[k].from = 1

\* the keys of all the partitions of the run
AllPartitionKeys == UNION {PartitionKeys(worker_ctxs[i], bits) : i \in 1..Len(worker_ctxs)}

\* main left the receive loop through its condition, in a run whose
\* predicate is always true and compiled in every worker
DrainedAllMatch ==
    /\ main_pc \in {"closure_ok", "exited"}
    /\ workers # <<>>
    /\ stdout[Len(stdout)].line = "progress"
    /\ predicate = "all"
    /\ \A i \in 1..Len(workers) : "Error" \notin {workers[i].sent[j] : j \in 1..Len(workers[i].sent)}

\* C15: with an always-true predicate every key of the keyspace produces
\* exactly one Match packet, and main has handled every one of them exactly
\* once when it leaves the receive loop: the Match packets received carry
\* the keys of all partitions, each key once and as many from each worker as
\* it visited keys, none is left in the channel, without a dump file each is
\* printed once in the order received, and the final progress has
\* keys_checked equal to keys_total.
C15_EveryKeyMatchedOnce ==
    DrainedAllMatch =>
        LET got == MatchesOf(received)
        IN  /\ chan = <<>>
            /\ Len(got) = Cardinality(AllPartitionKeys)
            /\ {from_buffer(got[j].net_key).key : j \in 1..Len(got)} = AllPartitionKeys
            /\ \A j \in 1..Len(got) : from_buffer(got[j].net_key).ok
            /\ \A i \in 1..Len(workers) :
                  Cardinality({j \in 1..Len(got) : got[j].from = i}) = workers[i].visited
            /\ ~key_dump =>
                  [j \in 1..Len(got) |-> to_string(from_buffer(got[j].net_key).key)]
                     = [j \in 1..Len(got) |->
                           (SelectSeq(stdout, LAMBDA l : l.line = "matched"))[j].text]
            /\ keys_checked = keys_total
            /\ BigFromInt(Len(got)) = keys_total

\* two workers with two keys each and a channel of capacity 1: four matches
\* were received and main left the loop
C15_Witness ==
    /\ DrainedAllMatch
    /\ worker_total = 2
    /\ capacity = 1
    /\ Len(MatchesOf(received)) = 4

\* every worker of the run has sent its terminal packet
AllTerminalsSent ==
    /\ Len(workers) = worker_total
    /\ \A i \in 1..Len(workers) : TerminalsSent(i) = 1

\* C16: while main keeps draining the channel the run does not deadlock:
\* under fair scheduling of the worker threads and of main, every worker
\* eventually sends its terminal packet and main eventually leaves the loop
\* and the program exits, also when every key matches and the channel is
\* full.
C16_EventuallyDrained == <>(AllTerminalsSent /\ main_pc = "exited" /\ exit_code = 0)

\* a worker was held by the full channel with a match for every key, and
\* the run ended all the same
C16_Witness ==
    /\ predicate = "all"
    /\ capacity = 1
    /\ worker_total = 2
    /\ AllTerminalsSent
    /\ main_pc = "exited"
    /\ exit_code = 0
    /\ Len(received) > 2 * capacity

\* main has returned the error of a failed write of a Match to the dump
\* file and the scope has not returned yet (the other errors main returns
\* from the loop are a key that does not render, without a dump file, and
\* the disconnected channel, with its line)
DumpWriteFailed ==
    /\ key_dump
    /\ main_pc = "closure_err"
    /\ workers # <<>>
    /\ stdout[Len(stdout)].line # "disconnected"
    /\ stdout[Len(stdout)].line # "progress"

\* C17: when the write to the dump file fails, main leaves the loop and the
\* program terminates with exit code 1, whatever number of packets the
\* workers still have to send: once the write has failed the program is on
\* its way to the exit, with a worker thread that can take a step or with
\* all of them ended so that the scope returns.
C17_WriteFailureExitsWithOne ==
    DumpWriteFailed => (ENABLED WorkerStep) \/ (ENABLED ScopeJoins)

\* worker i ended search_task with the compile error
CompileFailed(i) ==
    \/ workers[i].pc = "failed"
    \/ workers[i].sent # <<>> /\ workers[i].sent[Len(workers[i].sent)] = "Error"

SomeWorkerPanicked == \E i \in 1..Len(workers) : workers[i].pc = "panicked"

\* C19: when a worker dies without a terminal packet, main never completes
\* normally: it leaves the loop on the disconnected channel, once the other
\* workers have ended and the channel is empty, and the program terminates
\* with exit code 1 and without the final progress line.
C19_PanicExitsWithOne ==
    SomeWorkerPanicked =>
        /\ main_pc # "closure_ok"
        /\ main_pc = "exited" =>
              /\ exit_code = 1
              /\ stdout[Len(stdout)].line # "progress"

\* the terminal packets main has received
TerminalsReceived ==
    Cardinality({j \in 1..Len(received) : received[j].kind \in TerminalKinds})

\* C20: workers_waiting is worker_total less the terminal packets received
\* so far; a Progress, a Match or a timeout never changes it, a Finished or
\* an Error takes one off; main leaves the receive loop as drained exactly
\* when it is 0, and receives nothing afterwards.
C20_WaitingCountsTerminals ==
    /\ []((workers # <<>>) =>
            /\ workers_waiting = worker_total - TerminalsReceived
            /\ main_pc = "closure_ok" => workers_waiting = 0 /\ chan = <<>>)
    /\ [][/\ (main_pc = "running" /\ workers_waiting' # workers_waiting) =>
                /\ chan # <<>>
                /\ Head(chan).kind \in TerminalKinds
                /\ received' = Append(received, Head(chan))
                /\ workers_waiting' = workers_waiting - 1
          /\ (main_pc = "running" /\ received' # received) =>
                /\ workers_waiting > 0
                /\ received' = Append(received, Head(chan))
                /\ Head(chan).kind \in {"Progress", "Match"} =>
                      workers_waiting' = workers_waiting
          /\ (main_pc = "running" /\ main_pc' = "closure_ok") => workers_waiting = 0
          /\ (main_pc = "running" /\ workers_waiting = 0) =>
                main_pc' \in {"running", "closure_ok"}
          /\ main_pc \in {"closure_ok", "closure_err", "exited"} =>
                received' = received /\ workers_waiting' = workers_waiting]_vars

\* main left the loop after the two terminal packets, having received a
\* Match and a Progress before the last of them
C20_Witness ==
    /\ main_pc = "closure_ok"
    /\ worker_total = 2
    /\ TerminalsReceived = 2
    /\ \E j \in 1..Len(received) : received[j].kind = "Match"
    /\ \E j \in 1..Len(received) : received[j].kind = "Progress"
    /\ received[Len(received)].kind = "Finished"
    /\ received[Len(received) - 1].kind = "Progress"

\* the next step of worker i is a send: the Match of a key that matches, the
\* Progress of a chunk, the terminal packet
AtSend(i) ==
    \/ workers[i].pc = "key" /\ Matches(workers[i].key)
    \/ workers[i].pc \in {"chunk", "finished", "failed"}

\* the thread of worker i has not ended
Alive(i) == workers[i].pc \notin {"done", "panicked"}

\* C21: the channel from the workers to main never holds more than 64
\* packets (nor more than its capacity, where a smaller one is explored); a
\* worker thread that has not ended can take its next step exactly unless
\* that step is a send and the channel is full, so a worker blocks in send
\* on a full channel and nowhere else; and from a full channel the only
\* change of the channel is main taking its first packet, so the blocked
\* send completes only after main has received one.
C21_SendBlocksExactlyWhenFull ==
    /\ [](/\ Len(chan) <= capacity
          /\ capacity <= CHANNEL_CAPACITY
          /\ \A i \in 1..Len(workers) :
                Alive(i) =>
                    ((ENABLED WorkerStepOf(i)) <=> ~(AtSend(i) /\ Len(chan) = capacity)))
    /\ [][Len(chan) = capacity => chan' \in {chan, Tail(chan)}]_vars

\* a worker is blocked in send on a full channel, after main has received
\* packets that filled it before, and another worker goes on, with a key
\* that does not match
C21_Witness ==
    /\ Len(workers) = 2
    /\ Len(chan) = capacity
    /\ received # <<>>
    /\ Alive(1) /\ AtSend(1)
    /\ Alive(2) /\ ~AtSend(2)

(***************************************************************************)
(* search_task: the condition compiled against the bindings in, out,       *)
(* in_freq_dist_error and out_freq_dist_error, and the compiled predicate  *)
(* called on the keys of the enumeration.  A condition is kept as its      *)
(* syntax tree.  An F64 is kept as an exact fraction, a UnitFrequency as   *)
(* the non-zero entries of its sorted data over a common denominator.      *)
(***************************************************************************)
\* bounds of the conditions, languages and keys explored
MaxIndex == 2
MaxLanguages == 2
MaxTaskKeys == 2

\* hot_eval values: Value::U8, Value::F64, the boolean of a predicate, and
\* the number of a literal or of an arithmetic expression
Val(t, num, den) == [t |-> t, num |-> num, den |-> den]
U8(n) == Val("u8", n, 1)
F64(num, den) == Val("f64", num, den)
Bool(b) == Val("bool", IF b THEN 1 ELSE 0, 1)
Num(n, den) == Val("num", n, den)
NoValue == Val("none", 0, 1)

\* the nodes of a condition: a literal n, a call of a binding, e > n, e - n,
\* a && b
Node(op, name, args, n) == [op |-> op, name |-> name, args |-> args, n |-> n]
Lit(n) == Node("lit", "", <<>>, n)
Call(name, args) == Node("call", name, args, 0)
Gt(e, n) == Node("gt", "", <<e>>, n)
Sub(e, n) == Node("sub", "", <<e>>, n)
And(a, b) == Node("and", "", <<a, b>>, 0)

\* FnSpecChoice::Const { value }, FnSpecChoice::Call { fn_ptr, args } (of
\* the args only the language a pointer was taken to is kept), or Err(msg)
Choice(kind, fn_ptr, value, language, err) ==
    [kind |-> kind, fn_ptr |-> fn_ptr, value |-> value, language |-> language, err |-> err]
ChoiceConst(value) == Choice("Const", "", value, 0, "")
ChoiceCall(fn_ptr, language) == Choice("Call", fn_ptr, NoValue, language, "")
ChoiceErr(err) == Choice("Err", "", NoValue, 0, err)
NoChoice == Choice("None", "", NoValue, 0, "")

\* InterleavedMessageData::get_message_count
get_message_count(data) == data.message_count

\* `m < messages.get_message_count() && u < messages.get_unit_count(m)`
InBoundsOfBuffer(data, m, u) ==
    IF m < get_message_count(data)
    THEN (u * get_message_count(data)) + m < Len(data.inner)
    ELSE FALSE
InBounds(data, m, u) ==
    IF m < get_message_count(data) THEN u < get_unit_count(data, m) ELSE FALSE

\* Index<(usize, usize)> for InterleavedMessageData: the asserts, then
\* get_unchecked
index(data, m, u) ==
    IF InBounds(data, m, u)
    THEN [panic |-> FALSE, value |-> get_unchecked(data, m, u)]
    ELSE [panic |-> TRUE, value |-> 0]

\* CipherCodecContext::get_output: the asserts, then get_output_unchecked
get_output(decrypt, k, data, m, u) ==
    IF InBounds(data, m, u)
    THEN [panic |-> FALSE, value |-> get_output_unchecked(decrypt, k, data, m, u)]
    ELSE [panic |-> TRUE, value |-> 0]

\* UnitTotals::from_message_data_list: the occurrences of every unit
from_message_data_list_totals(message_data_list) ==
    [c \in Byte |->
        Cardinality({pos \in UNION {{<<m, i>> : i \in 1..Len(message_data_list[m])} :
                                       m \in 1..Len(message_data_list)} :
                        message_data_list[pos[1]][pos[2]] = c})]

RECURSIVE Repeat(_, _)
Repeat(x, n) == IF n = 0 THEN <<>> ELSE <<x>> \o Repeat(x, n - 1)

\* the totals from count down to 1, each as often as it occurs: the
\* non-zero part of the data after UnitFrequency::sort
RECURSIVE SortedFrom(_, _)
SortedFrom(totals, count) ==
    IF count = 0 THEN <<>>
    ELSE Repeat(count, Cardinality({c \in Byte : totals[c] = count}))
         \o SortedFrom(totals, count - 1)

RECURSIVE SumTo(_, _)
SumTo(data, i) == IF i = 0 THEN 0 ELSE data[i] + SumTo(data, i - 1)

\* UnitFrequency::from_unit_totals: every total over their sum, sorted (the
\* messages explored hold a unit, so the sum is not 0)
from_unit_totals(totals) ==
    LET occurring == {c \in Byte : totals[c] > 0}
        top == IF occurring = {} THEN 0
               ELSE CHOOSE n \in {totals[c] : c \in occurring} :
                        \A c \in occurring : totals[c] <= n
        data == SortedFrom(totals, top)
    IN  [data |-> data, den |-> SumTo(data, Len(data))]

\* UnitFrequency::from_message_data_list
from_message_data_list(message_data_list) ==
    from_unit_totals(from_message_data_list_totals(message_data_list))

Abs(x) == IF x < 0 THEN 0 - x ELSE x
At(data, i) == IF i <= Len(data) THEN data[i] ELSE 0

\* UnitFrequency::get_error: the sum over the entries of the distance
\* between the two frequencies
RECURSIVE ErrorSum(_, _, _)
ErrorSum(self, other, i) ==
    IF i = 0 THEN 0
    ELSE Abs(At(self.data, i) * other.den - At(other.data, i) * self.den)
         + ErrorSum(self, other, i - 1)
get_error(self, other) ==
    F64(ErrorSum(self, other, IF Len(self.data) > Len(other.data)
                              THEN Len(self.data) ELSE Len(other.data)),
        self.den * other.den)

\* what the bindings hold of search_task: messages, languages,
\* in_freq_dist_errors
Bindings == [messages |-> from_messages(input_messages),
             languages |-> languages,
             in_freq_dist_errors |-> in_freq_dist_errors]

\* hints.consts of a call: Some(IRConst::Uint) for an argument that is a
\* literal, None for any other
Hints(args) == [i \in 1..Len(args) |->
                   [const |-> args[i].op = "lit", inner |-> args[i].n]]
AllConst(hints) == \A i \in 1..Len(hints) : hints[i].const

\* fn_spec of the binding "in"
fn_spec_in_of_first_unit(b, hints) ==
    IF AllConst(hints)
    THEN LET m == hints[1].inner
             u == hints[2].inner
         IN  IF InBounds(b.messages, m, u)
             THEN ChoiceConst(U8(index(b.messages, m, 0).value))
             ELSE ChoiceErr("in() call in expression is always out of bounds")
    ELSE ChoiceCall("eval_in", 0)
fn_spec_in(b, hints) ==
    IF AllConst(hints)
    THEN LET m == hints[1].inner
             u == hints[2].inner
         IN  IF InBounds(b.messages, m, u)
             THEN ChoiceConst(U8(index(b.messages, m, u).value))
             ELSE ChoiceErr("in() call in expression is always out of bounds")
    ELSE ChoiceCall("eval_in", 0)

\* fn_spec of the binding "in_freq_dist_error"
fn_spec_in_freq_dist_error(b, hints) ==
    IF AllConst(hints)
    THEN LET l == hints[1].inner
         IN  IF l < Len(b.languages)
             THEN ChoiceConst(b.in_freq_dist_errors[l + 1])
             ELSE ChoiceErr("in_freq_dist_error() call in expression is always out of bounds")
    ELSE ChoiceCall("eval_in_freq_dist_error", 0)

\* fn_spec of the binding "out"
fn_spec_out_checks_message_only(b, hints) ==
    IF AllConst(hints)
    THEN LET m == hints[1].inner
             u == hints[2].inner
         IN  IF m < get_message_count(b.messages)
             THEN ChoiceCall("eval_out_unchecked", 0)
             ELSE ChoiceErr("out() call in expression is always out of bounds")
    ELSE ChoiceCall("eval_out", 0)
fn_spec_out(b, hints) ==
    IF AllConst(hints)
    THEN LET m == hints[1].inner
             u == hints[2].inner
         IN  IF InBounds(b.messages, m, u)
             THEN ChoiceCall("eval_out_unchecked", 0)
             ELSE ChoiceErr("out() call in expression is always out of bounds")
    ELSE ChoiceCall("eval_out", 0)

\* fn_spec of the binding "out_freq_dist_error"
fn_spec_out_freq_dist_error(b, hints) ==
    IF AllConst(hints)
    THEN LET l == hints[1].inner
         IN  IF l < Len(b.languages)
             THEN ChoiceCall("eval_out_freq_dist_error_specific", l)
             ELSE ChoiceErr("out_freq_dist_error() call in expression is always out of bounds")
    ELSE ChoiceCall("eval_out_freq_dist_error", 0)

fn_spec(b, name, hints) ==
    IF name = "in" THEN fn_spec_in(b, hints)
    ELSE IF name = "in_freq_dist_error" THEN fn_spec_in_freq_dist_error(b, hints)
    ELSE IF name = "out" THEN fn_spec_out(b, hints)
    ELSE fn_spec_out_freq_dist_error(b, hints)

\* the bounds-checked function of a binding, what fn_spec gives without
\* constant hints
GenericChoice(name) ==
    ChoiceCall(IF name = "in" THEN "eval_in"
               ELSE IF name = "in_freq_dist_error" THEN "eval_in_freq_dist_error"
               ELSE IF name = "out" THEN "eval_out"
               ELSE "eval_out_freq_dist_error", 0)

\* a node with the choice taken at it
Chosen(node, args, choice) ==
    [op |-> node.op, name |-> node.name, args |-> args, n |-> node.n, choice |-> choice]

\* the condition compiled: at every call the choice of its fn_spec when
\* specialized, the generic function otherwise; the first error of a
\* fn_spec is the error of the compilation
RECURSIVE Specialize(_, _, _)
Specialize(node, b, specialized) ==
    LET args == [i \in 1..Len(node.args) |-> Specialize(node.args[i], b, specialized)]
        failed == {i \in 1..Len(args) : args[i].err # ""}
        choice == IF node.op # "call" THEN NoChoice
                  ELSE IF specialized THEN fn_spec(b, node.name, Hints(node.args))
                  ELSE GenericChoice(node.name)
    IN  [err |-> IF failed # {}
                 THEN args[CHOOSE i \in failed : \A j \in failed : i <= j].err
                 ELSE choice.err,
         node |-> Chosen(node, [i \in 1..Len(args) |-> args[i].node], choice)]

\* ret_type of the bindings, and the type of the other nodes
TypeOf(node) ==
    IF node.op = "call"
    THEN IF node.name \in {"in", "out"} THEN "u8" ELSE "f64"
    ELSE IF node.op \in {"gt", "and"} THEN "bool"
    ELSE "num"

\* PredicateError::BadExpressionType
BadExpressionType == "Bad expression type; expected a predicate (boolean)"

\* compile_str(..)? and the match on its result: only
\* CompiledExpression::Bool is a predicate
compile_predicate(cond, b) ==
    LET sp == Specialize(cond, b, TRUE)
    IN  IF sp.err # "" THEN [ok |-> FALSE, err |-> sp.err, node |-> sp.node]
        ELSE IF TypeOf(cond) # "bool"
        THEN [ok |-> FALSE, err |-> BadExpressionType, node |-> sp.node]
        ELSE [ok |-> TRUE, err |-> "", node |-> sp.node]
\* OnceCell::new(), and what OnceCell::take leaves
EmptyCell == [full |-> FALSE, key |-> <<>>, value |-> [data |-> <<>>, den |-> 0]]

\* OnceCell::get_or_init with the closure of
\* eval_out_freq_dist_error_specific: a full cell is left alone, an empty
\* one is filled from the output messages of the codec context (the key is
\* kept with the value to tell what it was computed from)
get_or_init(cell, decrypt, k, data) ==
    IF cell.full THEN cell
    ELSE [full |-> TRUE, key |-> k,
          value |-> from_message_data_list(get_output_messages(decrypt, k, data))]

\* the state a call of the compiled function goes through: the cell, how
\* often it was filled, what out_freq_dist_error returned and from which
\* key's output, a panic, an access out of bounds without a check
Running(cell) == [cell |-> cell, fills |-> 0, returned |-> <<>>, panic |-> FALSE,
                  unchecked_out_of_bounds |-> FALSE]

\* eval_out_freq_dist_error_specific
eval_out_freq_dist_error_specific(st, decrypt, k, data, language) ==
    LET cell == get_or_init(st.cell, decrypt, k, data)
        value == get_error(language, cell.value)
    IN  [v |-> value,
         st |-> [st EXCEPT !.cell = cell,
                           !.fills = IF st.cell.full THEN st.fills ELSE st.fills + 1,
                           !.returned = Append(st.returned,
                                               [value |-> value, key |-> cell.key])]]

Panicked(st) == [v |-> NoValue, st |-> [st EXCEPT !.panic = TRUE]]

\* the function a FnSpecChoice::Call names, on the values of the arguments
CallFn(choice, a, st, b, decrypt, k) ==
    IF choice.fn_ptr = "eval_in"
    THEN LET res == index(b.messages, a[1], a[2])
         IN  IF res.panic THEN Panicked(st) ELSE [v |-> U8(res.value), st |-> st]
    ELSE IF choice.fn_ptr = "eval_in_freq_dist_error"
    THEN IF a[1] < Len(b.in_freq_dist_errors)
         THEN [v |-> b.in_freq_dist_errors[a[1] + 1], st |-> st]
         ELSE Panicked(st)
    ELSE IF choice.fn_ptr = "eval_out"
    THEN LET res == get_output(decrypt, k, b.messages, a[1], a[2])
         IN  IF res.panic THEN Panicked(st) ELSE [v |-> U8(res.value), st |-> st]
    ELSE IF choice.fn_ptr = "eval_out_unchecked"
    THEN IF InBounds(b.messages, a[1], a[2])
         THEN [v |-> U8(get_output_unchecked(decrypt, k, b.messages, a[1], a[2])), st |-> st]
         ELSE [v |-> NoValue, st |-> [st EXCEPT !.unchecked_out_of_bounds = TRUE]]
    ELSE IF choice.fn_ptr = "eval_out_freq_dist_error"
    THEN IF a[1] < Len(b.languages)
         THEN eval_out_freq_dist_error_specific(st, decrypt, k, b.messages, b.languages[a[1] + 1])
         ELSE Panicked(st)
    ELSE eval_out_freq_dist_error_specific(st, decrypt, k, b.messages,
                                           b.languages[choice.language + 1])

\* jit_fn.call(): the nodes evaluated with their arguments from left to
\* right; once a binding has panicked, or read out of bounds, nothing more
\* is evaluated
RECURSIVE Eval(_, _, _, _, _)
Eval(node, st, b, decrypt, k) ==
    LET first == Eval(node.args[1], st, b, decrypt, k)
        second == Eval(node.args[2], first.st, b, decrypt, k)
        last == IF Len(node.args) = 2 THEN second ELSE first
        stopped_at(res) == res.st.panic \/ res.st.unchecked_out_of_bounds
    IN  IF node.op = "lit" THEN [v |-> Num(node.n, 1), st |-> st]
        ELSE IF stopped_at(first) THEN [v |-> NoValue, st |-> first.st]
        ELSE IF Len(node.args) = 2 /\ stopped_at(second) THEN [v |-> NoValue, st |-> second.st]
        ELSE IF node.op = "gt"
        THEN [v |-> Bool(first.v.num > node.n * first.v.den), st |-> first.st]
        ELSE IF node.op = "sub"
        THEN [v |-> Num(first.v.num - node.n * first.v.den, first.v.den), st |-> first.st]
        ELSE IF node.op = "and"
        THEN [v |-> Bool(first.v.num = 1 /\ second.v.num = 1), st |-> second.st]
        ELSE IF node.choice.kind = "Const" THEN [v |-> node.choice.value, st |-> last.st]
        ELSE CallFn(node.choice,
                    [i \in 1..Len(node.args) |-> IF i = 1 THEN first.v.num ELSE second.v.num],
                    last.st, b, decrypt, k)

\* search_task up to the match on the compiled expression: Err is returned
\* before the enumeration starts
TaskFrame ==
    /\ UNCHANGED <<languages, in_freq_dist_errors, cond_src, input_messages, decrypt_first,
                   codec_stage, mid_messages, final_messages>>
    /\ UNCHANGED <<searchVars, keyVars, dataVars, cfgVars, sliceVars, permVars, obsVars>>

TaskCompiles ==
    /\ task_pc = "compile"
    /\ compiled' = compile_predicate(cond_src, Bindings)
    /\ task_pc' = IF compiled'.ok THEN "key" ELSE "failed"
    /\ UNCHANGED <<out_freq_dist, task_keys, evaluation, matches, codec_key>>
    /\ TaskFrame

\* the key callback up to the call of the compiled function: the cache is
\* cleared, a codec context is made of the key and put in the slab
TaskKeyKeepsCache ==
    /\ task_pc = "key"
    /\ task_keys # <<>>
    /\ out_freq_dist' = out_freq_dist
    /\ codec_key' = Head(task_keys)
    /\ task_keys' = Tail(task_keys)
    /\ task_pc' = "call"
    /\ UNCHANGED <<compiled, evaluation, matches>>
    /\ TaskFrame
TaskKey ==
    /\ task_pc = "key"
    /\ task_keys # <<>>
    /\ out_freq_dist' = EmptyCell
    /\ codec_key' = Head(task_keys)
    /\ task_keys' = Tail(task_keys)
    /\ task_pc' = "call"
    /\ UNCHANGED <<compiled, evaluation, matches>>
    /\ TaskFrame

\* jit_fn.call() and the send of the Match when it answers true; a panic of
\* a binding unwinds the thread; after a read out of bounds without a check
\* anything can follow
TaskCalls ==
    /\ task_pc = "call"
    /\ LET res == Eval(compiled.node, Running(out_freq_dist), Bindings, decrypt_first,
                       codec_key)
       IN  /\ out_freq_dist' = res.st.cell
           /\ \E answer \in IF res.st.unchecked_out_of_bounds THEN BOOLEAN
                            ELSE {res.v.num = 1} :
                 /\ evaluation' = [answer |-> answer /\ ~res.st.panic,
                                   panic |-> res.st.panic,
                                   unchecked_out_of_bounds |-> res.st.unchecked_out_of_bounds,
                                   fills |-> res.st.fills,
                                   returned |-> res.st.returned,
                                   key |-> codec_key]
                 /\ matches' = IF answer /\ ~res.st.panic
                               THEN Append(matches, codec_key) ELSE matches
           /\ task_pc' = IF res.st.panic THEN "panicked" ELSE "key"
    /\ UNCHANGED <<compiled, task_keys, codec_key>>
    /\ TaskFrame

\* permute_keys_interruptible returns: search_task returns Ok
TaskReturns ==
    /\ task_pc = "key"
    /\ task_keys = <<>>
    /\ task_pc' = "done"
    /\ UNCHANGED <<compiled, out_freq_dist, task_keys, evaluation, matches, codec_key>>
    /\ TaskFrame

\* the conditions explored: every call of a binding on literals up to
\* MaxIndex, and on the output unit out(1, 0) where a literal can be,
\* compared with a threshold; conjunctions of two comparisons of
\* out_freq_dist_error; and expressions that are no boolean
ConstCalls ==
    {Call(name, <<Lit(m), Lit(u)>>) : name \in {"in", "out"}, m \in 0..MaxIndex, u \in 0..MaxIndex}
    \cup {Call(name, <<Lit(l)>>) :
            name \in {"in_freq_dist_error", "out_freq_dist_error"}, l \in 0..MaxIndex}
DynamicCalls ==
    LET unit == Call("out", <<Lit(1), Lit(0)>>)
    IN  {Call(name, <<Lit(0), unit>>) : name \in {"in", "out"}}
        \cup {Call(name, <<unit>>) : name \in {"in_freq_dist_error", "out_freq_dist_error"}}
Thresholds == {0, 6}
Conditions ==
    {Gt(call, n) : call \in ConstCalls \cup DynamicCalls, n \in Thresholds}
    \cup {And(Gt(Call("out_freq_dist_error", <<Lit(0)>>), 0),
              Gt(Call("out_freq_dist_error", <<Lit(l)>>), 0)) : l \in 0..1}
    \cup {Sub(Call("in", <<Lit(0), Lit(0)>>), 42),
          Sub(Call("out", <<Lit(0), Lit(0)>>), 42),
          Call("in", <<Lit(0), Lit(0)>>),
          Lit(1)}

\* the messages explored: in(0, 0) is 42 or not, the messages differ in
\* length, the output unit out(1, 0) is in and out of their bounds
TaskMessages == {<< <<42, 7, 7>>, <<1>> >>, << <<5>>, <<9, 9>> >>}

\* the languages explored: language l of n has the weights l, .., 1
Language(l) == [data |-> [i \in 1..l |-> l + 1 - i], den |-> (l * (l + 1)) \div 2]
Languages(n) == [l \in 1..n |-> Language(l)]

\* the keys explored: sequences of MaxTaskKeys keys of one round
TaskKeys == {<<[add |-> a, rot |-> 0, xor |-> 0]>> : a \in 0..1}
TaskKeyLists ==
    {[i \in 1..MaxTaskKeys |-> IF i = 1 THEN first ELSE rest] :
        first \in TaskKeys, rest \in TaskKeys}

InitTask ==
    /\ DataIdle
    /\ SearchIdle
    /\ KeyIdle
    /\ PermuteIdle
    /\ bits = U8_BITS
    /\ round_count = 1
    /\ worker_total = 1
    /\ worker_ctxs = <<>>
    /\ keys_total = <<>>
    /\ main_pc = "contexts"
    /\ codec_key = <<>>
    /\ codec_stage = 0
    /\ mid_messages = <<>>
    /\ final_messages = <<>>
    /\ input_messages \in TaskMessages
    /\ decrypt_first \in BOOLEAN
    /\ \E n \in 0..MaxLanguages :
          /\ languages = Languages(n)
          /\ \E first \in {0, 1} :
                in_freq_dist_errors = [l \in 1..n |-> F64(first + l, 2)]
    /\ cond_src \in Conditions
    /\ compiled = <<>>
    /\ out_freq_dist = EmptyCell
    /\ task_pc = "compile"
    /\ task_keys \in TaskKeyLists
    /\ evaluation = <<>>
    /\ matches = <<>>
    /\ ArgsIdle

NextTask ==
    \/ TaskCompiles
    \/ TaskKey
    \/ TaskCalls
    \/ TaskReturns

SpecTask == InitTask /\ [][NextTask]_vars

(***************************************************************************)
(* Claims over SpecTask.                                                   *)
(***************************************************************************)
\* the condition is compiled, or has failed to
Compiled == task_pc \notin {"idle", "compile"}

\* the compiled function has been called on a key
Called == Compiled /\ evaluation # <<>>

\* the value of the condition on the key of the latest call
ValueOnKey == Eval(compiled.node, Running(EmptyCell), Bindings, decrypt_first, evaluation.key).v

\* C22: a condition that is a number and no boolean, such as in(0,0) - 42,
\* is accepted by the compilation when its calls are in bounds, and a key
\* is a match exactly when the value of the condition on it is above 0;
\* in(0,0) - 42 with in(0,0) = 42 gives no error and no match.
C22_NumericConditionAccepted ==
    (Compiled /\ TypeOf(cond_src) = "num" /\ Specialize(cond_src, Bindings, TRUE).err = "") =>
        /\ compiled.ok
        /\ task_pc # "failed"
        /\ Called => (evaluation.answer <=> ValueOnKey.num > 0)
        /\ (cond_src = Sub(Call("in", <<Lit(0), Lit(0)>>), 42)
              /\ index(Bindings.messages, 0, 0).value = 42) => matches = <<>>

\* the calls of a compiled condition, those in arguments included
RECURSIVE CallsOf(_)
CallsOf(node) ==
    (IF node.op = "call" THEN {node} ELSE {})
    \cup UNION {CallsOf(node.args[i]) : i \in 1..Len(node.args)}

\* the arguments of a call are all literals
OnLiterals(call) == \A i \in 1..Len(call.args) : call.args[i].op = "lit"

\* literals (m, u) name a unit of the input messages; a literal l names a
\* language
UnitExists(call) ==
    /\ call.args[1].n < Len(input_messages)
    /\ call.args[2].n < Len(input_messages[call.args[1].n + 1])
LanguageExists(call) == call.args[1].n < Len(languages)
LiteralsInRange(call) ==
    IF call.name \in {"in", "out"} THEN UnitExists(call) ELSE LanguageExists(call)

\* C23: of a call on literals, in(m, u) in bounds is compiled to the
\* constant messages[(m, u)], out(m, u) in bounds to the unchecked getter,
\* in_freq_dist_error(l) with l below the number of languages to a
\* constant; a literal out of range (m >= M, u >= unit_count[m], l >= the
\* number of languages) is an error of the compilation.  The unchecked
\* getter is chosen for no (m, u) out of bounds, and a call with an
\* argument that is no literal gets the bounds-checked function.
C23_SpecializationByLiterals ==
    Compiled =>
        \A call \in CallsOf(compiled.node) :
            /\ (OnLiterals(call) /\ LiteralsInRange(call)) =>
                  /\ call.name = "in" =>
                        call.choice = ChoiceConst(
                            U8(input_messages[call.args[1].n + 1][call.args[2].n + 1]))
                  /\ call.name = "out" => call.choice = ChoiceCall("eval_out_unchecked", 0)
                  /\ call.name = "in_freq_dist_error" =>
                        call.choice = ChoiceConst(in_freq_dist_errors[call.args[1].n + 1])
            /\ (OnLiterals(call) /\ ~LiteralsInRange(call)) =>
                  /\ call.choice.kind = "Err"
                  /\ ~compiled.ok
                  /\ task_pc = "failed"
            /\ call.choice.fn_ptr = "eval_out_unchecked" =>
                  OnLiterals(call) /\ UnitExists(call)
            /\ ~OnLiterals(call) => call.choice = GenericChoice(call.name)

\* a condition with out(0, 2) was compiled to the unchecked getter, for
\* messages of which the other has no unit 2, and has been called on a key
C23_Witness ==
    /\ Called
    /\ compiled.ok
    /\ Len(input_messages[2]) < 3
    /\ \E call \in CallsOf(compiled.node) :
          /\ call.name = "out"
          /\ OnLiterals(call)
          /\ call.args[1].n = 0
          /\ call.args[2].n = 2
          /\ call.choice.fn_ptr = "eval_out_unchecked"

\* a compiled node with the bounds-checked function at every call
RECURSIVE Generalize(_)
Generalize(node) ==
    Chosen(node, [i \in 1..Len(node.args) |-> Generalize(node.args[i])],
           IF node.op = "call" THEN GenericChoice(node.name) ELSE NoChoice)

\* a node evaluated on the key of the latest call, with an empty cache
OnKey(node) == Eval(node, Running(EmptyCell), Bindings, decrypt_first, evaluation.key)

\* C24: specialization keeps the meaning.  On every key the predicate is
\* called on, every call on literals in range has the same value in its
\* specialized form (the constant of in and of in_freq_dist_error, the
\* unchecked getter of out, the function of out_freq_dist_error with its
\* language) as the bounds-checked function of the binding gives on the
\* same arguments, which does not panic; and the compiled predicate
\* answers, or panics, as the condition with the bounds-checked function
\* at every call does.
C24_SpecializationKeepsMeaning ==
    (Called /\ compiled.ok) =>
        /\ \A call \in CallsOf(compiled.node) :
              (OnLiterals(call) /\ LiteralsInRange(call)) =>
                  /\ call.choice # GenericChoice(call.name)
                  /\ ~OnKey(Generalize(call)).st.panic
                  /\ OnKey(call).v = OnKey(Generalize(call)).v
        /\ evaluation.panic = OnKey(Generalize(compiled.node)).st.panic
        /\ ~evaluation.panic =>
              evaluation.answer = (OnKey(Generalize(compiled.node)).v.num = 1)
        /\ ~evaluation.unchecked_out_of_bounds

\* a condition whose calls are all on literals has answered true on a key:
\* in(0, 1) above 6, or a conjunction on out_freq_dist_error with two
\* languages
C24_Witness ==
    /\ Called
    /\ compiled.ok
    /\ evaluation.answer
    /\ \A call \in CallsOf(compiled.node) : OnLiterals(call)
    /\ \/ cond_src = Gt(Call("in", <<Lit(0), Lit(1)>>), 6)
       \/ cond_src.op = "and" /\ Len(languages) = 2

\* the frequency of the output of the cipher under key k
OutputFrequency(k) ==
    from_message_data_list(get_output_messages(decrypt_first, k, from_messages(input_messages)))

\* C25: in a worker, for every key the cache of the output frequency is
\* empty when the predicate starts on the key, is filled at most once while
\* the predicate runs on it, and what out_freq_dist_error returns on key k
\* is the error of a language against the frequency of the output under
\* key k, taken from the codec context of key k; what is left in the cache
\* is of that key too.
C25_OutputFrequencyIsOfTheKey ==
    /\ task_pc = "call" => out_freq_dist = EmptyCell
    /\ Called =>
          /\ evaluation.fills <= 1
          /\ evaluation.fills = 0 => evaluation.returned = <<>> \/ evaluation.panic
          /\ \A i \in 1..Len(evaluation.returned) :
                /\ evaluation.returned[i].key = evaluation.key
                /\ evaluation.returned[i].value \in
                      {get_error(languages[l], OutputFrequency(evaluation.key)) :
                          l \in 1..Len(languages)}
          /\ (task_pc = "key" /\ out_freq_dist.full) =>
                /\ out_freq_dist.key = evaluation.key
                /\ out_freq_dist.value = OutputFrequency(evaluation.key)

\* the second of two different keys: out_freq_dist_error was called twice
\* on it, the cache filled once, after it had been filled for the first key
C25_Witness ==
    /\ Called
    /\ task_keys = <<>>
    /\ matches # <<>>
    /\ matches[1] # evaluation.key
    /\ evaluation.fills = 1
    /\ Len(evaluation.returned) = 2
    /\ evaluation.returned[1].value # evaluation.returned[2].value

(***************************************************************************)
(* main: worker_total from the arguments, the parallelism of the machine   *)
(* and the cipher, up to the spawning of the workers.                      *)
(***************************************************************************)
Min(a, b) == IF a < b THEN a ELSE b

\* get_parallelism(): available_parallelism(), or 1 when it is unknown
\* (available: 0), as u32 (which keeps it: no machine reports 2^32 threads)
get_parallelism(available) == IF available = 0 THEN 1 ELSE available

\* args.max_parallelism.unwrap_or(u32::MAX) and its min with the cipher's
\* maximum: u32::MAX.min(x) is x
min_with_cap(max_parallelism_arg, max_par_cipher) ==
    IF max_parallelism_arg = 0 THEN max_par_cipher
    ELSE Min(max_parallelism_arg, max_par_cipher)

\* `let worker_total = if args.sequential { 1 } else { .. }`
derive_worker_total_uncapped(a, par, max_par_cipher) ==
    IF a.sequential THEN 1
    ELSE IF a.max_parallelism = 0 THEN par ELSE Min(par, a.max_parallelism)
derive_worker_total(a, par, max_par_cipher) ==
    IF a.sequential THEN 1
    ELSE Min(par, min_with_cap(a.max_parallelism, max_par_cipher))

DeriveWorkerTotal ==
    /\ main_pc = "args"
    /\ worker_total' = derive_worker_total(cli_args, parallelism, get_max_parallelism(bits))
    /\ main_pc' = "init"
    /\ UNCHANGED <<bits, round_count, argVars, worker_ctxs, keys_total>>
    /\ UNCHANGED <<searchVars, codecVars, keyVars, dataVars, permVars, obsVars>>

\* the arguments explored: --max-parallelism is a NonZeroU32 when given
MaxParallelismArgs == {0, 1, 2, 3, 255, 256, 257, 65536}
\* the machines explored: what available_parallelism() reports
AvailableParallelism == {0, 1, 2, 4, 255, 256, 257, 1024}

InitWorkers ==
    /\ DataIdle
    /\ SearchIdle
    /\ bits = U8_BITS
    /\ round_count = 1
    /\ cli_args \in [sequential : BOOLEAN, max_parallelism : MaxParallelismArgs,
                      cipher : {CipherNameArx},
                      config : {SomeString(DecimalBytes(round_count))}]
    /\ parallelism \in {get_parallelism(available) : available \in AvailableParallelism}
    /\ worker_total = 0
    /\ worker_ctxs = <<>>
    /\ keys_total = <<>>
    /\ main_pc = "args"
    /\ PermuteIdle
    /\ CodecIdle
    /\ KeyIdle

NextWorkers ==
    \/ DeriveWorkerTotal
    \/ SearchSetup

SpecWorkers == InitWorkers /\ [][NextWorkers]_vars

MaxExcess == 2

\* create_worker_context_parallel(worker_id, worker_total), whose
\* get_worklet_slice may panic
ExcessContext ==
    /\ pc = "slice"
    /\ ctx' = create_worker_context_parallel(bits, round_count, worker_id, worker_total)
    /\ pc' = IF ctx'.panic THEN "panicked" ELSE "total"
    /\ UNCHANGED <<searchVars, codecVars, keyVars, dataVars, cfgVars, sliceVars, worker_id, r, key, ret,
                   obsVars>>

\* get_total_keys() of the context: `self.a_max - self.a_min` is a u8
\* subtraction, which overflows when a_min is above a_max
ExcessTotal ==
    /\ pc = "total"
    /\ \E overflow_checks \in BOOLEAN :
          IF ctx.round_count # 0 /\ ctx.a_max < ctx.a_min /\ overflow_checks
          THEN /\ pc' = "panicked"
               /\ UNCHANGED keys_total
          ELSE /\ pc' = "entry"
               /\ keys_total' = get_total_keys(ctx, bits)
    /\ UNCHANGED <<searchVars, codecVars, keyVars, dataVars, cfgVars, worker_ctxs, main_pc, worker_id,
                   ctx, r, key, ret, obsVars>>

\* with one round, after the loop over an empty add range:
\* chunk_callback((a_max as u32 - a_min as u32 + 1) * 256 * 8), whose
\* subtraction overflows; wrapped, the count is that of FinalChunk, as
\* a_min is a_max + 1 in every empty slice
PermuteOverflow ==
    /\ pc = "overflow"
    /\ \E overflow_checks \in BOOLEAN :
          IF overflow_checks
          THEN /\ pc' = "panicked"
               /\ UNCHANGED <<chunk_calls, chunk_sum, last_chunk, last_since, since_chunk>>
          ELSE /\ pc' = "done"
               /\ chunk_calls' = chunk_calls + 1
               /\ chunk_sum' = chunk_sum + FinalChunk(ctx, bits)
               /\ last_chunk' = FinalChunk(ctx, bits)
               /\ last_since' = since_chunk
               /\ since_chunk' = 0
    /\ UNCHANGED <<searchVars, codecVars, keyVars, dataVars, cfgVars, sliceVars, worker_id, ctx, r, key,
                   ret, keys_visited, seen, last_key, stopped>>

\* the contexts explored: every worker of every worker_total above max + 1
\* up to MaxExcess * (max + 1), at the reduced widths, with one and two
\* rounds
ExcessRuns ==
    {<<b, n, w, i>> \in (1..MaxBits) \X (1..2) \X (1..(MaxExcess * Pow2(MaxBits)))
                        \X (0..(MaxExcess * Pow2(MaxBits) - 1)) :
        /\ w > UnitMax(b) + 1
        /\ w <= MaxExcess * (UnitMax(b) + 1)
        /\ i < w}

InitExcess ==
    /\ DataIdle
    /\ SearchIdle
    /\ \E run \in ExcessRuns :
          /\ bits = run[1]
          /\ round_count = run[2]
          /\ worker_total = run[3]
          /\ worker_id = run[4]
    /\ ctx = [panic |-> FALSE, round_count |-> 0, a_min |-> 0, a_max |-> 0]
    /\ worker_ctxs = <<>>
    /\ keys_total = <<>>
    /\ main_pc = "contexts"
    /\ pc = "slice"
    /\ r = 0
    /\ key = <<>>
    /\ ret = TRUE
    /\ keys_visited = 0
    /\ seen = {}
    /\ last_key = <<>>
    /\ since_chunk = 0
    /\ chunk_calls = 0
    /\ chunk_sum = 0
    /\ last_chunk = 0
    /\ last_since = 0
    /\ stopped = FALSE
    /\ CodecIdle
    /\ KeyIdle
    /\ ArgsIdle

NextExcess ==
    \/ ExcessContext
    \/ ExcessTotal
    \/ PermuteOverflow
    \/ NextPermute

SpecExcess == InitExcess /\ [][NextExcess]_vars

InitEmpty ==
    /\ DataIdle
    /\ bits \in 1..MaxBits
    /\ round_count = 0
    /\ worker_total \in 1..MaxSearchWorkers
    /\ worker_total <= get_max_parallelism(bits)
    /\ capacity \in (1..MaxReducedCapacity) \cup {CHANNEL_CAPACITY}
    /\ key_dump \in BOOLEAN
    /\ build_hash \in IF key_dump THEN BuildHashes(1, worker_total) ELSE {<<>>}
    /\ predicate \in {"all", "none", "some"}
    /\ worker_ctxs = <<>>
    /\ keys_total = <<>>
    /\ main_pc = "init"
    /\ workers = <<>>
    /\ chan = <<>>
    /\ workers_waiting = 0
    /\ keys_checked = <<>>
    /\ keys_checked_since_last_print = <<>>
    /\ received = <<>>
    /\ dump_file = <<>>
    /\ faults = 0
    /\ stdout = <<>>
    /\ exit_code = -1
    /\ PermuteIdle
    /\ CodecIdle
    /\ KeyIdle
    /\ ArgsIdle

\* an iteration of the receive loop whose periodic print panics, after a
\* packet or after a timeout (no Match is ever sent)
EmptyPrintPanics ==
    \/ CoordinatorHandles(TRUE)
    \/ CoordinatorTimesOut(TRUE)

NextEmpty ==
    \/ NextDrain
    \/ EmptyPrintPanics

SpecEmpty == InitEmpty /\ [][NextEmpty]_vars

MaxBufferRounds == 1

EncodedRounds ==
    [add : {0, U8_MAX, U8_MAX + 1}, rot : {0, ROT_MAX, ROT_MAX + 1, U8_MAX, U8_MAX + 1},
     xor : {0, U8_MAX, U8_MAX + 1}]
EncodedKeys ==
    UNION {[1..n -> EncodedRounds] : n \in 0..MaxBufferRounds}
        \cup {[i \in 1..n |-> [add |-> 1, rot |-> ROT_MAX + 1, xor |-> 0]] :
                n \in {MAX_ROUNDS, MAX_ROUNDS + 1}}
        \cup {[i \in 1..n |-> [add |-> 1, rot |-> ROT_MAX, xor |-> U8_MAX]] :
                n \in {2, MAX_ROUNDS, MAX_ROUNDS + 1}}
KeyBuffers ==
    LET whole == {EncodedARXKey_encode_to_vec(enc_rounds, 1) : enc_rounds \in EncodedKeys}
    IN  whole \cup {SubSeq(buffer, 1, Len(buffer) - 1) : buffer \in whole \ {<<>>}}

InitBuffer ==
    /\ DataIdle
    /\ SearchIdle
    /\ bits = U8_BITS
    /\ wire_key = <<>>
    /\ round_count = 1
    /\ worker_total = 1
    /\ worker_ctxs = <<>>
    /\ keys_total = <<>>
    /\ main_pc = "contexts"
    /\ PermuteIdle
    /\ CodecIdle
    /\ net_key \in KeyBuffers
    /\ key_stage = "sent"
    /\ decoded = [ok |-> FALSE, key |-> <<>>]
    /\ rendered = [ok |-> FALSE, str |-> <<>>]
    /\ ArgsIdle

NextBuffer == ReceiveMatch

SpecBuffer == InitBuffer /\ [][NextBuffer]_vars

(***************************************************************************)
(* Claim over SpecBuffer.                                                  *)
(***************************************************************************)
\* C30: a key that from_buffer returns is a list of 1 to MAX_ROUNDS rounds
\* with every rot in 0..=7 and every add and xor in 0..=255; a buffer that
\* encodes anything else is rejected with an error.  (The keys of the
\* enumeration are left aside here: the decoded ones already fail.)
C30_DecodedKeysAreWellFormed ==
    (key_stage = "decoded" /\ decoded.ok) =>
        /\ Len(decoded.key) \in 1..MAX_ROUNDS
        /\ \A i \in 1..Len(decoded.key) :
              /\ decoded.key[i].rot \in 0..ROT_MAX
              /\ decoded.key[i].add \in 0..U8_MAX
              /\ decoded.key[i].xor \in 0..U8_MAX

(***************************************************************************)
(* The interleaved message data: AcceleratedMessageList::from_messages on  *)
(* message lists of every shape up to the bounds, then one checked access  *)
(* at a place inside or outside the data, through the Index of             *)
(* InterleavedMessageData and through CipherCodecContext::get_output.      *)
(***************************************************************************)
\* bounds of the message lists explored: messages in a list, units in a message
MaxMessages == 3
MaxUnits == 2

\* the units of the messages explored: all different and none 0, or 0 and
\* 255 in turn
DataUnit(variant, m, u) ==
    IF variant = 0 THEN 1 + (16 * m) + u
    ELSE IF (m + u) % 2 = 0 THEN 0 ELSE U8_MAX
DataMessageLists ==
    UNION {{[m \in 1..count |-> [u \in 1..lens[m] |-> DataUnit(variant, m - 1, u - 1)]] :
                lens \in [1..count -> 0..MaxUnits], variant \in {0, 1}} :
           count \in 0..MaxMessages}
DataKeys == {<<[add |-> 0, rot |-> 0, xor |-> 0]>>, <<[add |-> 3, rot |-> 1, xor |-> 5]>>}

\* from_messages on the message list
BuildData ==
    /\ access.stage = "messages"
    /\ message_data' = from_messages(input_messages)
    /\ access' = [access EXCEPT !.stage = "built"]
    /\ UNCHANGED <<alphabet, alphabet_result>>
    /\ UNCHANGED <<searchVars, codecVars, keyVars, cfgVars, sliceVars, permVars, obsVars>>

\* data[(m, u)] and a codec context's get_output(m, u), at any place up to
\* one message and one unit beyond the data
CheckedAccess ==
    /\ access.stage = "built"
    /\ \E m \in 0..(MaxMessages + 1), u \in 0..(MaxUnits + 1) :
          access' = [stage |-> "read", m |-> m, u |-> u,
                     read |-> index(message_data, m, u),
                     out |-> get_output(decrypt_first, codec_key, message_data, m, u)]
    /\ UNCHANGED <<searchVars, codecVars, keyVars, cfgVars, sliceVars, permVars, obsVars,
                   message_data, alphabet, alphabet_result>>

InitData ==
    /\ SearchIdle
    /\ KeyIdle
    /\ PermuteIdle
    /\ TaskIdle
    /\ bits = U8_BITS
    /\ round_count = 1
    /\ worker_total = 1
    /\ worker_ctxs = <<>>
    /\ keys_total = <<>>
    /\ main_pc = "contexts"
    /\ codec_key \in DataKeys
    /\ codec_stage = 0
    /\ mid_messages = <<>>
    /\ final_messages = <<>>
    /\ input_messages \in DataMessageLists
    /\ decrypt_first \in BOOLEAN
    /\ message_data = [message_count |-> 0, inner |-> <<>>, unit_counts |-> <<>>]
    /\ access = [stage |-> "messages", m |-> 0, u |-> 0, read |-> NoRead, out |-> NoRead]
    /\ AlphabetIdle
    /\ ArgsIdle

NextData ==
    \/ BuildData
    \/ CheckedAccess

SpecData == InitData /\ [][NextData]_vars

(***************************************************************************)
(* Claims over SpecData.                                                   *)
(***************************************************************************)
\* the place (from 1) of unit u of message m (both from 0) among M messages
CellOf(M, m, u) == (u * M) + m + 1
Built == access.stage \in {"built", "read"}

\* C31: from_messages builds a buffer of length M * L_max in which cell
\* u * M + m holds unit u of message m for every m < M and u < len(m), every
\* other cell is 0, and unit_counts[m] is len(m); reading (m, u) through the
\* index returns the original unit.
C31_InterleavedLayout ==
    Built =>
        LET M == Len(input_messages)
            valid == {<<m, u>> \in (0..(M - 1)) \X (0..(MaxUnits + 1)) :
                         u < Len(input_messages[m + 1])}
        IN  /\ message_data.message_count = M
            /\ Len(message_data.inner) = M * LenMax(input_messages, 1)
            /\ Len(message_data.unit_counts) = M
            /\ \A m \in 0..(M - 1) :
                  message_data.unit_counts[m + 1] = Len(input_messages[m + 1])
            /\ \A place \in valid :
                  /\ CellOf(M, place[1], place[2]) \in 1..Len(message_data.inner)
                  /\ message_data.inner[CellOf(M, place[1], place[2])]
                        = input_messages[place[1] + 1][place[2] + 1]
                  /\ index(message_data, place[1], place[2])
                        = [panic |-> FALSE,
                           value |-> input_messages[place[1] + 1][place[2] + 1]]
            /\ \A cell \in 1..Len(message_data.inner) :
                  (\A place \in valid : CellOf(M, place[1], place[2]) # cell)
                      => message_data.inner[cell] = 0
            /\ (access.stage = "read" /\ <<access.m, access.u>> \in valid) =>
                  access.read = [panic |-> FALSE,
                                 value |-> input_messages[access.m + 1][access.u + 1]]

\* messages of different lengths, none of them empty, interleaved with
\* padding, and a unit of the last message read back
C31_Witness ==
    /\ access.stage = "read"
    /\ Len(input_messages) = MaxMessages
    /\ Len(input_messages[1]) = 1
    /\ Len(input_messages[MaxMessages]) = MaxUnits
    /\ access.m = MaxMessages - 1
    /\ access.u = MaxUnits - 1
    /\ ~access.read.panic
    /\ access.read.value = DataUnit(0, MaxMessages - 1, MaxUnits - 1)

\* whether (m, u) is a unit of the message list
IsUnit(m, u) ==
    /\ m < Len(input_messages)
    /\ u < Len(input_messages[m + 1])

\* C39: a checked access (the index of InterleavedMessageData, and
\* get_output of a codec context) at (m, u) with m >= M or
\* u >= unit_count[m] fails by assertion, also on a padding cell
\* (u < L_max); it never returns padding or a unit of another message: what
\* it returns is unit u of message m, or that unit under the key.
C39_CheckedAccessAsserts ==
    access.stage = "read" =>
        IF IsUnit(access.m, access.u)
        THEN LET unit == input_messages[access.m + 1][access.u + 1]
                 order == IF decrypt_first THEN for_each(Len(codec_key))
                          ELSE for_each_rev(Len(codec_key))
             IN  /\ access.read = [panic |-> FALSE, value |-> unit]
                 /\ access.out = [panic |-> FALSE,
                                  value |-> ApplyRounds(codec_key, order, 1, unit, decrypt_first)]
        ELSE /\ access.read.panic
             /\ access.out.panic

\* a read of a padding cell: inside the buffer, past the end of its message
C39_Witness ==
    /\ access.stage = "read"
    /\ access.m < Len(input_messages)
    /\ access.u >= Len(input_messages[access.m + 1])
    /\ access.u < LenMax(input_messages, 1)
    /\ CellOf(Len(input_messages), access.m, access.u) <= Len(message_data.inner)
    /\ \E m \in 1..Len(input_messages) : input_messages[m] # <<>> /\ input_messages[m][1] # 0
    /\ access.read.panic
    /\ access.out.panic

(***************************************************************************)
(* The alphabet of src/src/analysis/alphabet.rs: a BTreeMap from the code  *)
(* (u8) to its unit and a HashMap from the grapheme to the code, filled by *)
(* add_unit and add_anonymous_unit from Alphabet::new() or from            *)
(* Alphabet::default(), which holds every code.  A string is the sequence  *)
(* of its code points.                                                     *)
(***************************************************************************)
MAX_UNITS == 256

\* U+0301, a combining mark: it extends the cluster of the character before it
COMBINING_ACUTE == 769
Extends(c) == c = COMBINING_ACUTE

\* grapheme.graphemes(true).count(): a cluster begins at the first character
\* and at every character that extends nothing
graphemes_count(str) ==
    Cardinality({i \in 1..Len(str) : i = 1 \/ ~Extends(str[i])})

AlphabetUnit(grapheme, weight) == [grapheme |-> grapheme, weight |-> weight]
\* AlphabetUnit::is_printable
is_printable(alpha_unit) == Len(alpha_unit.grapheme) > 0

\* Alphabet::len
len(a) == Cardinality(DOMAIN a.units)

\* BTreeMap::insert / HashMap::insert
MapInsert(map, k, v) == [x \in (DOMAIN map) \cup {k} |-> IF x = k THEN v ELSE map[x]]

\* Alphabet::add_unit: the result and the alphabet after the call
add_unit_over_grapheme(a, unit, grapheme, weight) ==
    IF len(a) >= MAX_UNITS THEN [result |-> "UnitLimitExceeded", alphabet |-> a]
    ELSE IF graphemes_count(grapheme) # 1 THEN [result |-> "InvalidGrapheme", alphabet |-> a]
    ELSE IF unit \in DOMAIN a.units THEN [result |-> "DuplicateUnit", alphabet |-> a]
    ELSE [result |-> "Ok",
          alphabet |-> [units |-> MapInsert(a.units, unit, AlphabetUnit(grapheme, weight)),
                        grapheme_map |-> MapInsert(a.grapheme_map, grapheme, unit)]]
add_unit(a, unit, grapheme, weight) ==
    IF len(a) >= MAX_UNITS THEN [result |-> "UnitLimitExceeded", alphabet |-> a]
    ELSE IF graphemes_count(grapheme) # 1 THEN [result |-> "InvalidGrapheme", alphabet |-> a]
    ELSE IF grapheme \in DOMAIN a.grapheme_map
    THEN [result |-> "DuplicateGrapheme", alphabet |-> a]
    ELSE IF unit \in DOMAIN a.units THEN [result |-> "DuplicateUnit", alphabet |-> a]
    ELSE [result |-> "Ok",
          alphabet |-> [units |-> MapInsert(a.units, unit, AlphabetUnit(grapheme, weight)),
                        grapheme_map |-> MapInsert(a.grapheme_map, grapheme, unit)]]

\* Alphabet::add_anonymous_unit
add_anonymous_unit(a, unit, weight) ==
    IF len(a) >= MAX_UNITS THEN [result |-> "UnitLimitExceeded", alphabet |-> a]
    ELSE IF unit \in DOMAIN a.units THEN [result |-> "DuplicateUnit", alphabet |-> a]
    ELSE [result |-> "Ok",
          alphabet |-> [units |-> MapInsert(a.units, unit, AlphabetUnit(<<>>, weight)),
                        grapheme_map |-> a.grapheme_map]]

\* Alphabet::get_unit and Alphabet::get_unit_idx (Option)
get_unit(a, idx) ==
    IF idx \in DOMAIN a.units THEN [some |-> TRUE, value |-> a.units[idx]]
    ELSE [some |-> FALSE, value |-> AlphabetUnit(<<>>, 0)]
get_unit_idx(a, grapheme) ==
    IF grapheme \in DOMAIN a.grapheme_map THEN [some |-> TRUE, value |-> a.grapheme_map[grapheme]]
    ELSE [some |-> FALSE, value |-> 0]

\* Alphabet::default(): 0x00..=0x1f and 0x7f..=0xff anonymous, 0x20..=0x7e
\* with the ASCII character for grapheme, all of weight 0
Alphabet_default ==
    [units |-> [u \in 0..U8_MAX |->
                   IF u >= 32 /\ u <= 126 THEN AlphabetUnit(<<u>>, 0) ELSE AlphabetUnit(<<>>, 0)],
     grapheme_map |-> [g \in {<<u>> : u \in 32..126} |-> g[1]]]

\* the calls explored
AlphabetCodes == {0, 65, 66, U8_MAX}
AlphabetGraphemes ==
    {<<>>, <<65>>, <<66>>, <<65, 66>>, <<101, COMBINING_ACUTE>>, <<COMBINING_ACUTE>>,
     <<COMBINING_ACUTE, 65>>}
AlphabetWeights == {0, 5}

AddUnit ==
    /\ \E unit \in AlphabetCodes, grapheme \in AlphabetGraphemes, weight \in AlphabetWeights :
          LET call == add_unit(alphabet, unit, grapheme, weight)
          IN  /\ alphabet' = call.alphabet
              /\ alphabet_result' = call.result
    /\ UNCHANGED <<message_data, access>>
    /\ UNCHANGED <<searchVars, codecVars, keyVars, cfgVars, sliceVars, permVars, obsVars>>

AddAnonymousUnit ==
    /\ \E unit \in AlphabetCodes, weight \in AlphabetWeights :
          LET call == add_anonymous_unit(alphabet, unit, weight)
          IN  /\ alphabet' = call.alphabet
              /\ alphabet_result' = call.result
    /\ UNCHANGED <<message_data, access>>
    /\ UNCHANGED <<searchVars, codecVars, keyVars, cfgVars, sliceVars, permVars, obsVars>>

InitAlphabet ==
    /\ SearchIdle
    /\ KeyIdle
    /\ PermuteIdle
    /\ CodecIdle
    /\ bits = U8_BITS
    /\ round_count = 1
    /\ worker_total = 1
    /\ worker_ctxs = <<>>
    /\ keys_total = <<>>
    /\ main_pc = "contexts"
    /\ message_data = [message_count |-> 0, inner |-> <<>>, unit_counts |-> <<>>]
    /\ access = [stage |-> "idle", m |-> 0, u |-> 0, read |-> NoRead, out |-> NoRead]
    /\ alphabet \in {Alphabet_new, Alphabet_default}
    /\ alphabet_result = "none"
    /\ ArgsIdle

NextAlphabet ==
    \/ AddUnit
    \/ AddAnonymousUnit

SpecAlphabet == InitAlphabet /\ [][NextAlphabet]_vars

(***************************************************************************)
(* Claim over SpecAlphabet.                                                *)
(***************************************************************************)
Printable(a) == {c \in DOMAIN a.units : is_printable(a.units[c])}

\* at most MAX_UNITS units; no grapheme is the grapheme of two codes (the
\* anonymous units have no grapheme: theirs is the empty string); a
\* grapheme is one cluster; code and grapheme are inverse on the printable
\* units
AlphabetSound(a) ==
    /\ len(a) <= MAX_UNITS
    /\ DOMAIN a.units \subseteq 0..U8_MAX
    /\ \A c, d \in Printable(a) : a.units[c].grapheme = a.units[d].grapheme => c = d
    /\ \A c \in Printable(a) :
          /\ graphemes_count(a.units[c].grapheme) = 1
          /\ get_unit_idx(a, get_unit(a, c).value.grapheme) = [some |-> TRUE, value |-> c]
    /\ \A g \in DOMAIN a.grapheme_map :
          /\ get_unit(a, a.grapheme_map[g]).some
          /\ get_unit(a, a.grapheme_map[g]).value.grapheme = g

\* C32: after any sequence of add_unit and add_anonymous_unit calls an
\* alphabet holds at most 256 units, no code and no grapheme occurs twice
\* (a code is a key of the map; the graphemes are those of the printable
\* units), and code and grapheme are inverse of each other on the printable
\* units: get_unit_idx(get_unit(c).grapheme) == c; a call that returns an
\* error leaves the alphabet unchanged, and a call that returns Ok adds one
\* unit.
C32_AlphabetBijective ==
    /\ [](AlphabetSound(alphabet))
    /\ [][/\ alphabet_result' # "Ok" => alphabet' = alphabet
          /\ alphabet' # alphabet =>
                /\ alphabet_result' = "Ok"
                /\ len(alphabet') = len(alphabet) + 1
                /\ \A c \in DOMAIN alphabet.units : alphabet'.units[c] = alphabet.units[c]]_vars

\* two printable units, one of them a cluster of two characters, and an
\* anonymous one are in; the last call was refused
C32_Witness ==
    /\ alphabet_result = "DuplicateGrapheme"
    /\ Cardinality(Printable(alphabet)) = 2
    /\ len(alphabet) = 3
    /\ <<101, COMBINING_ACUTE>> \in DOMAIN alphabet.grapheme_map

(***************************************************************************)
(* The start of main: the cipher is built from args.cipher and             *)
(* args.config, then the key dump file is created and its header written,  *)
(* then worker_total is derived, the contexts are made and the workers     *)
(* spawned.  An Err at any of these returns from main before what follows  *)
(* and main_error_wrap! exits with 1.  (The imports of the languages, the  *)
(* alphabet and the messages come before and are not modelled.)            *)
(***************************************************************************)
ASCII_PLUS == 43

\* <usize as FromStr>::from_str: an optional "+", then decimal digits, at
\* least one; anything else is an error
RECURSIVE DigitsValue(_, _)
DigitsValue(digits, acc) ==
    IF digits = <<>> THEN acc
    ELSE DigitsValue(Tail(digits), (acc * 10) + (Head(digits) - AsciiDigit(0)))
parse_usize(bytes) ==
    IF bytes = <<>> THEN [ok |-> FALSE, value |-> 0]
    ELSE LET digits == IF bytes[1] = ASCII_PLUS /\ Len(bytes) > 1 THEN Tail(bytes) ELSE bytes
         IN  IF \E i \in 1..Len(digits) : digits[i] \notin AsciiDigit(0)..AsciiDigit(9)
             THEN [ok |-> FALSE, value |-> 0]
             ELSE [ok |-> TRUE, value |-> DigitsValue(digits, 0)]

CipherErr(err) == [ok |-> FALSE, err |-> err, round_count |-> 0]

\* ARXCipher::new
ARXCipher_new_up_to_nine(config) ==
    IF ~config.some THEN CipherErr("MissingConfiguration")
    ELSE LET n == parse_usize(config.value)
         IN  IF ~n.ok THEN CipherErr("ParseIntError")
             ELSE IF n.value = 0 \/ n.value > MAX_ROUNDS + 1 THEN CipherErr("BadConfiguration")
             ELSE [ok |-> TRUE, err |-> "", round_count |-> n.value]
ARXCipher_new(config) ==
    IF ~config.some THEN CipherErr("MissingConfiguration")
    ELSE LET n == parse_usize(config.value)
         IN  IF ~n.ok THEN CipherErr("ParseIntError")
             ELSE IF n.value = 0 \/ n.value > MAX_ROUNDS THEN CipherErr("BadConfiguration")
             ELSE [ok |-> TRUE, err |-> "", round_count |-> n.value]

\* ciphers::deserialise_cipher
deserialise_cipher(cipher_name, config) ==
    IF cipher_name = CipherNameArx THEN ARXCipher_new(config)
    ELSE CipherErr("UnknownCipher")

\* the rest of the state of main at a step before the workers exist
StartFrame ==
    /\ exit_code = -1
    /\ UNCHANGED <<bits, worker_total, argVars, worker_ctxs, keys_total>>
    /\ UNCHANGED <<searchCfgVars, workers, chan, workers_waiting, keys_checked,
                   keys_checked_since_last_print, received, stdout>>
    /\ UNCHANGED <<codecVars, keyVars, dataVars, permVars, obsVars>>

\* `let cipher = deserialise_cipher(&args.cipher, args.config.as_deref())?;`
StartCipher ==
    /\ main_pc = "cipher"
    /\ LET cipher == deserialise_cipher(cli_args.cipher, cli_args.config)
       IN  IF cipher.ok
           THEN /\ round_count' = cipher.round_count
                /\ main_pc' = "dump"
                /\ UNCHANGED exit_code
           ELSE /\ main_pc' = "exited"
                /\ exit_code' = 1
                /\ UNCHANGED round_count
    /\ UNCHANGED <<dump_file, faults>>
    /\ StartFrame

\* the key dump file, when there is a path: File::create_new, then the
\* write of the header, which takes all of it
StartDump ==
    /\ main_pc = "dump"
    /\ dump_file' = IF key_dump THEN KeyDumpMeta_encode_to_vec(DumpMeta) ELSE <<>>
    /\ main_pc' = "args"
    /\ UNCHANGED <<round_count, exit_code, faults>>
    /\ StartFrame

\* the write of the header returns Ok(n) with n below its length (explored:
\* nothing written, all but the last byte): the count is not looked at
StartDumpShort ==
    /\ main_pc = "dump"
    /\ key_dump
    /\ faults < MaxFaults
    /\ faults' = faults + 1
    /\ LET header == KeyDumpMeta_encode_to_vec(DumpMeta)
       IN  \E n \in {0, Len(header) - 1} : dump_file' = SubSeq(header, 1, n)
    /\ main_pc' = "args"
    /\ UNCHANGED <<round_count, exit_code>>
    /\ StartFrame

\* File::create_new returns Err (the file exists, say), or the write of the
\* header does
StartDumpFails ==
    /\ main_pc = "dump"
    /\ key_dump
    /\ main_pc' = "exited"
    /\ exit_code' = 1
    /\ UNCHANGED <<round_count, dump_file, faults>>
    /\ StartFrame

\* the contexts and the spawning, for the runs explored (SearchRuns): the
\* dump file stays as it is
StartSpawn ==
    /\ <<bits, round_count, worker_total>> \in SearchRuns
    /\ SetupWith(dump_file)
    /\ UNCHANGED faults

\* the arguments explored
StartNames == {CipherNameArx, <<114, 97, 120>>, <<>>}
StartConfigs ==
    {NoString} \cup
    {SomeString(bytes) :
        bytes \in {<<>>, <<48>>, <<49>>, <<50>>, <<56>>, <<57>>, <<48, 56>>, <<49, 48>>,
                   <<ASCII_PLUS>>, <<ASCII_PLUS, 50>>, <<45, 49>>, <<49, 32>>, <<120>>,
                   <<50, 53, 54>>}}

InitStartup ==
    /\ DataIdle
    /\ bits = 1
    /\ round_count = 0
    /\ worker_total = 0
    /\ cli_args \in [sequential : BOOLEAN, max_parallelism : {0},
                     cipher : StartNames, config : StartConfigs]
    /\ parallelism \in {1, 2}
    /\ capacity = CHANNEL_CAPACITY
    /\ key_dump \in BOOLEAN
    /\ build_hash = <<97, 98, 99>>
    /\ predicate \in {"all", "none"}
    /\ worker_ctxs = <<>>
    /\ keys_total = <<>>
    /\ main_pc = "cipher"
    /\ workers = <<>>
    /\ chan = <<>>
    /\ workers_waiting = 0
    /\ keys_checked = <<>>
    /\ keys_checked_since_last_print = <<>>
    /\ received = <<>>
    /\ dump_file = <<>>
    /\ faults = 0
    /\ stdout = <<>>
    /\ exit_code = -1
    /\ PermuteIdle
    /\ CodecIdle
    /\ KeyIdle

NextStartup ==
    \/ StartCipher
    \/ StartDump
    \/ StartDumpShort
    \/ StartDumpFails
    \/ DeriveWorkerTotal
    \/ StartSpawn
    \/ WorkerStep
    \/ CoordinatorReceives
    \/ CoordinatorTimeout
    \/ CoordinatorDrained
    \/ ScopeJoins

SpecStartup == InitStartup /\ [][NextStartup]_vars

(***************************************************************************)
(* Claims over SpecStartup.                                                *)
(***************************************************************************)
\* the string is a decimal numeral, with or without a "+" before it
Numeral(bytes) ==
    LET digits == IF bytes # <<>> /\ bytes[1] = ASCII_PLUS THEN Tail(bytes) ELSE bytes
    IN  /\ digits # <<>>
        /\ \A i \in 1..Len(digits) : digits[i] \in AsciiDigit(0)..AsciiDigit(9)
\* the number a numeral of at most three digits stands for
RECURSIVE PlaceSum(_, _)
PlaceSum(digits, i) ==
    IF i > Len(digits) THEN 0
    ELSE ((digits[i] - AsciiDigit(0)) * IntPow(10, Len(digits) - i)) + PlaceSum(digits, i + 1)
NumberOf(bytes) ==
    PlaceSum(IF bytes[1] = ASCII_PLUS THEN Tail(bytes) ELSE bytes, 1)
ValidCipherArgs ==
    /\ cli_args.cipher = CipherNameArx
    /\ cli_args.config.some
    /\ Numeral(cli_args.config.value)
    /\ NumberOf(cli_args.config.value) \in 1..MAX_ROUNDS
CipherBuilt == deserialise_cipher(cli_args.cipher, cli_args.config)

StartHeader == KeyDumpMeta_encode_to_vec(DumpMeta)
\* main returned the Err of the dump file: the cipher was built, no worker
\* total was derived yet
StartDumpFailed ==
    /\ main_pc = "exited"
    /\ exit_code = 1
    /\ ValidCipherArgs
    /\ worker_total = 0

\* C34: when a dump path is given, the dump file is created and its header
\* written before any worker is spawned: at the step that spawns the
\* workers the file already holds the header, and while a worker exists the
\* file begins with it; if the creation or the write of the header fails, no
\* worker is ever spawned and no packet is ever sent.
C34_DumpHeaderBeforeWorkers ==
    /\ []((key_dump /\ (workers # <<>> \/ chan # <<>> \/ worker_ctxs # <<>>)) =>
            /\ Len(dump_file) >= Len(StartHeader)
            /\ SubSeq(dump_file, 1, Len(StartHeader)) = StartHeader)
    /\ [](StartDumpFailed =>
            /\ key_dump
            /\ dump_file = <<>>
            /\ workers = <<>>
            /\ worker_ctxs = <<>>
            /\ chan = <<>>
            /\ received = <<>>)
    /\ [][/\ (workers = <<>> /\ workers' # <<>> /\ key_dump) => dump_file = StartHeader
          /\ main_pc = "exited" => (workers' = workers /\ chan' = chan)]_vars

(***************************************************************************)
(* More claims over SpecSearch and SpecDrain.                              *)
(***************************************************************************)
IsTerminal(packet) == packet.kind \in {"Finished", "Error"}
IsTerminalLine(line) == line.line \in {"finished", "errored"}

\* C35: for every terminal packet (Finished or Error) the coordinator has
\* handled there is one log line, in the order of receipt, "finished" for a
\* Finished and "errored" for an Error, and the worker it names is the one
\* that sent the packet.
C35_TerminalLineNamesSender ==
    LET terminals == SelectSeq(received, IsTerminal)
        lines == SelectSeq(stdout, IsTerminalLine)
    IN  /\ Len(lines) = Len(terminals)
        /\ \A k \in 1..Len(lines) :
              /\ lines[k].line = (IF terminals[k].kind = "Finished" THEN "finished" ELSE "errored")
              /\ lines[k].n = terminals[k].from - 1

\* C36: whenever the coordinator makes the periodic print, the one with the
\* estimated time left, keys_checked is above 0 and the quotient
\* (keys_total - keys_checked) / keys_checked is defined: the print never
\* panics on a zero denominator, also when the 5 seconds pass before any
\* Progress packet has been received.
C36_PeriodicPrintHasKeysChecked ==
    ~(main_pc = "closure_panic" /\ keys_checked = <<>>)

RECURSIVE BigValue(_)
BigValue(a) == IF a = <<>> THEN 0 ELSE Head(a) + BigBase * BigValue(Tail(a))
RECURSIVE ProgressKeys(_)
ProgressKeys(packets) ==
    IF packets = <<>> THEN 0
    ELSE (IF Head(packets).kind = "Progress" THEN Head(packets).keys ELSE 0)
         + ProgressKeys(Tail(packets))
KeysCounted == BigValue(keys_checked) + BigValue(keys_checked_since_last_print)
KeysNeverTakenBack == BigValue(keys_checked') >= BigValue(keys_checked)
\* main has left the receive loop through its condition and made the final print
LoopLeft == \E k \in DOMAIN stdout : stdout[k].line = "progress"
AllFinishedReceived ==
    /\ Len(SelectSeq(received, IsTerminal)) = worker_total
    /\ \A k \in DOMAIN received : received[k].kind # "Error"

\* C37 as stated: in every state of the coordinator keys_checked +
\* keys_checked_since_last_print is the sum of the keys of the Progress
\* packets received so far and at most keys_total; keys_checked never
\* decreases; when every worker ended with Finished the final keys_checked
\* is keys_total.
C37_CountedKeysAreReceivedKeys ==
    /\ [](/\ KeysCounted = ProgressKeys(received)
          /\ KeysCounted <= BigValue(keys_total)
          /\ (LoopLeft /\ AllFinishedReceived) => keys_checked = keys_total)
    /\ [][KeysNeverTakenBack]_vars

\* C37 amended: while main is in the receive loop or has left it early,
\* keys_checked + keys_checked_since_last_print is the sum of the keys of the
\* Progress packets received so far; once main has left the loop through its
\* condition keys_checked alone is that sum, as the last count has been added
\* and not reset.  The sum is at most keys_total in every state, keys_checked
\* never decreases, and when main left the loop with a Finished from every
\* worker keys_checked is keys_total.
C37_KeysCheckedAccounts ==
    /\ [](/\ ~LoopLeft => KeysCounted = ProgressKeys(received)
          /\ LoopLeft => BigValue(keys_checked) = ProgressKeys(received)
          /\ ProgressKeys(received) <= BigValue(keys_total)
          /\ (LoopLeft /\ AllFinishedReceived) => keys_checked = keys_total)
    /\ [][KeysNeverTakenBack]_vars
C37_Witness ==
    /\ LoopLeft
    /\ AllFinishedReceived
    /\ keys_checked_since_last_print # <<>>
    /\ BigValue(keys_checked) > BigValue(keys_checked_since_last_print)
    /\ keys_checked = keys_total

NoWorkerPanicked == \A i \in DOMAIN workers : workers[i].pc # "panicked"
SawDisconnected == \E k \in DOMAIN stdout : stdout[k].line = "disconnected"
\* main holds the terminal packet of every worker and nothing is left to take
Drained ==
    /\ \A i \in DOMAIN workers :
          \E k \in DOMAIN received : IsTerminal(received[k]) /\ received[k].from = i
    /\ workers_waiting = 0
    /\ chan = <<>>

\* C38 as stated: in a run in which no worker panics the coordinator never
\* observes Disconnected, it receives the terminal packet of every worker
\* and leaves the receive loop with workers_waiting = 0 and an empty
\* channel, and the program exits normally: once the workers are spawned the
\* run does not end in another way.
C38_NoPanicDrainsAndExitsNormally ==
    (NoWorkerPanicked /\ workers # <<>>) =>
        /\ ~SawDisconnected
        /\ main_pc \notin {"closure_err", "closure_panic"}
        /\ main_pc = "exited" => (LoopLeft /\ Drained /\ exit_code = 0)

\* C38 amended: as long as no worker has panicked the coordinator does not
\* observe Disconnected.  Whenever it has left the receive loop through its
\* condition it has received the terminal packet of every worker,
\* workers_waiting is 0 and the channel is empty, and the exit that follows
\* is with code 0.  A run without a worker panic ends in another way only
\* with code 1, after a write to the dump file failed, or with 101, after the
\* periodic print panicked with keys_checked = 0.
C38_NoPanicNoDisconnect ==
    /\ NoWorkerPanicked => ~SawDisconnected
    /\ LoopLeft => Drained
    /\ (NoWorkerPanicked /\ workers # <<>> /\ main_pc = "exited") =>
          /\ LoopLeft <=> exit_code = 0
          /\ exit_code \in {0, 1, 101}
          /\ exit_code = 1 => (faults > 0 /\ key_dump)
          /\ exit_code = 101 => keys_checked = <<>>
C38_Witness ==
    /\ main_pc = "exited"
    /\ exit_code = 0
    /\ NoWorkerPanicked
    /\ worker_total = 2
    /\ \E k \in DOMAIN received : received[k].kind = "Error"
    /\ \E k \in DOMAIN received : received[k].kind = "Finished"
    /\ LoopLeft
    /\ Drained

(***************************************************************************)
(* The frequency distributions search_task compares: that of the input,    *)
(* taken once, and that of the output of a key.                            *)
(***************************************************************************)
\* UnitTotals::from_interleaved_message_data: the occurrences of every unit
\* over the units of each message, read through the checked index; the
\* padding is left out
from_interleaved_message_data_totals(data) ==
    [c \in Byte |->
        Cardinality({pos \in UNION {{<<m, u>> : u \in 0..(get_unit_count(data, m) - 1)} :
                                       m \in 0..(get_message_count(data) - 1)} :
                        index(data, pos[1], pos[2]).value = c})]

\* UnitFrequency::from_interleaved_message_data: the sorted frequencies of
\* the input
from_interleaved_message_data(data) ==
    from_unit_totals(from_interleaved_message_data_totals(data))

FrequencyFrame ==
    /\ UNCHANGED <<languages, cond_src, compiled, task_keys, matches, codec_key,
                   input_messages, decrypt_first, codec_stage, mid_messages, final_messages>>
    /\ UNCHANGED <<searchVars, keyVars, dataVars, cfgVars, sliceVars, permVars, obsVars>>

\* search_task before the compilation: in_freq_dist_errors, the error of
\* every language against the frequencies of the input
FrequencyOfInput ==
    /\ task_pc = "bindings"
    /\ in_freq_dist_errors' =
          [l \in 1..Len(languages) |->
              get_error(languages[l],
                        from_interleaved_message_data(from_messages(input_messages)))]
    /\ task_pc' = "call"
    /\ UNCHANGED <<out_freq_dist, evaluation>>
    /\ FrequencyFrame

\* eval_out_freq_dist_error_specific for the key of the codec context, on
\* the languages in turn: the first call fills the cell
FrequencyOfOutput ==
    /\ task_pc = "call"
    /\ LET l == Len(evaluation) + 1
           res == eval_out_freq_dist_error_specific(Running(out_freq_dist), decrypt_first,
                                                    codec_key, from_messages(input_messages),
                                                    languages[l])
       IN  /\ out_freq_dist' = res.st.cell
           /\ evaluation' = Append(evaluation, [language |-> l, value |-> res.v])
           /\ task_pc' = IF l = Len(languages) THEN "done" ELSE "call"
    /\ UNCHANGED in_freq_dist_errors
    /\ FrequencyFrame

\* the messages explored: units that occur once and more than once, a unit
\* 0 next to the padding of the shorter messages, an empty message
FrequencyMessages ==
    {<<Hello, <<>> >>,
     << <<42, 7, 7>>, <<1>> >>,
     << <<0, 255, 255, 128>>, <<255>>, <<1, 0>> >>}

\* the keys explored: every single round over the wide samples, and the
\* keys of MAX_ROUNDS rounds
FrequencyKeys == {<<round>> : round \in WideRounds} \cup LongKeys

InitFrequency ==
    /\ DataIdle
    /\ SearchIdle
    /\ KeyIdle
    /\ PermuteIdle
    /\ bits = U8_BITS
    /\ codec_key \in FrequencyKeys
    /\ round_count = Len(codec_key)
    /\ worker_total = 1
    /\ worker_ctxs = <<>>
    /\ keys_total = <<>>
    /\ main_pc = "contexts"
    /\ codec_stage = 0
    /\ mid_messages = <<>>
    /\ final_messages = <<>>
    /\ input_messages \in FrequencyMessages
    /\ decrypt_first \in BOOLEAN
    /\ languages = Languages(MaxLanguages)
    /\ in_freq_dist_errors = <<>>
    /\ cond_src = <<>>
    /\ compiled = <<>>
    /\ out_freq_dist = EmptyCell
    /\ task_pc = "bindings"
    /\ task_keys = <<>>
    /\ evaluation = <<>>
    /\ matches = <<>>
    /\ ArgsIdle

NextFrequency ==
    \/ FrequencyOfInput
    \/ FrequencyOfOutput

SpecFrequency == InitFrequency /\ [][NextFrequency]_vars

\* C40: for every key and either direction the output messages of the ARX
\* codec context have the same multiset of unit counts as the input
\* messages: the sorted frequency distribution of the output is that of the
\* input, and what out_freq_dist_error(l) gives for the key is
\* in_freq_dist_error(l), for every language l.
C40_ArxKeepsFrequencyDistribution ==
    /\ out_freq_dist.full =>
          out_freq_dist.value = from_interleaved_message_data(from_messages(input_messages))
    /\ \A e \in 1..Len(evaluation) :
          evaluation[e].value = in_freq_dist_errors[evaluation[e].language]
C40_Witness ==
    /\ task_pc = "done"
    /\ out_freq_dist.full
    /\ Len(codec_key) = MAX_ROUNDS
    /\ \E i \in 1..Len(codec_key) : codec_key[i].rot # 0
    /\ ~decrypt_first
    /\ Len(evaluation) = Len(languages)
    /\ evaluation[1].value.num # 0
    /\ from_message_data_list_totals(
          get_output_messages(decrypt_first, codec_key, from_messages(input_messages)))
          # from_interleaved_message_data_totals(from_messages(input_messages))

====
